---------------------------- MODULE Spec2Model ----------------------------
(***************************************************************************)
(* State-machine model of the notes application: MusicPlayer              *)
(* (PlaybackQueue), with the library of uploaded tracks, the playback      *)
(* bundle {currentId, position, volume, queue}, the asynchronous upload    *)
(* handler whose body is suspended on every file read, its audio element   *)
(* and the two keys it persists in localStorage; CalendarView, with its    *)
(* view, its anchor date, its selected date and its two stored             *)
(* preferences; the notes of App, with the modal they are edited in; and   *)
(* the dev shim that starts the development server.  The components share *)
(* nothing but localStorage, where their keys are disjoint, so each        *)
(* specification moves one of them.  SpecAudio runs the player under a     *)
(* host that rejects audio.play() or not, by turns; the other              *)
(* specifications of the player keep a host that rejects it.               *)
(*                                                                         *)
(* An effect runs after the commit of the handler that called its setter   *)
(* and before the next event is dispatched, so it belongs to the handler's *)
(* action.  localStorage.setItem may throw; which keys it throws for is    *)
(* the state of the environment (failing).  No handler reads the store or  *)
(* learns of a rejected write: Spec runs the player from an empty store    *)
(* that rejects every write, SpecLoaded from a store that accepts every    *)
(* write, and SpecPersist over a store that accepts and rejects by turns.  *)
(*                                                                         *)
(* Every event handler runs to completion on the single UI thread; React   *)
(* applies the queued state updaters in the order they were enqueued, so a *)
(* handler is one atomic action.  handleUpload is the exception: it is cut *)
(* at each `await readFileAsDataURL(file)`, and any other handler may run  *)
(* between two of its pieces.  playNext and playPrev read the rendered      *)
(* state, which is the latest one: the render that follows a handler is    *)
(* committed before the next event is dispatched.                          *)
(*                                                                         *)
(* JavaScript arrays are modelled by sequences; indices computed by the    *)
(* code (indexOf, idx + 1, length - 1) keep their 0-based values and are   *)
(* converted only where the sequence is read (At).  Track ids are the      *)
(* strings produced by uid(); the model draws them from a counter, so that *)
(* an id is a positive number, truthy, and never produced twice.           *)
(***************************************************************************)
EXTENDS Integers, Sequences, FiniteSets, TLC

VARIABLES
    library,    \* useState(loadLibrary): array of Track, newest first
    state,      \* useState(loadPlaybackState): {currentId, position, volume, queue}
    uploads,    \* the handleUpload invocations started so far, in start order
    nextUid,    \* the next value uid() returns
    removed,    \* history: ids passed to removeTrack
    last,       \* history: the handler that ran last (Ran, RanAt, RanFrom, Mounted)
    localStorage, \* window.localStorage: the text kept under each key present
    failing,    \* the keys for which localStorage.setItem throws at present
    view,       \* CalendarView, useState: 'month' | 'week' | 'day'
    current,    \* CalendarView, useState: the anchor date, at midnight
    selected,   \* CalendarView, useState: the selected date, or null
    audio,      \* MusicPlayer, audioRef.current: the src attribute and paused
    request,    \* history: the outcome of the audio.play() called in the last step
    blocking,   \* the host rejects audio.play() at present (autoplay policy)
    argv,       \* dev shim: process.argv.slice(2), one character per element
    env,        \* dev shim: process.env, the variables that are set
    child,      \* dev shim: the process given to spawn, and its exit
    notes,      \* App, useState: array of Note, newest first
    activeId,   \* App, useState: the id of the note shown, or null
    isModalOpen, \* App, useState
    draft,      \* App, useState: {title, content} of the modal's fields
    modalMode,  \* App, useState: 'create' | 'edit'
    nextUuid    \* the next value uuid() returns

vars == <<library, state, uploads, nextUid, removed, last, localStorage, failing,
          view, current, selected, audio, request, blocking, argv, env, child,
          notes, activeId, isModalOpen, draft, modalMode, nextUuid>>

\* the state of MusicPlayer with the bookkeeping of its uploads
playerVars == <<library, state, uploads, nextUid, removed>>

\* the audio element of MusicPlayer and its host
audioVars == <<audio, request, blocking>>

\* the process of the dev shim
shimVars == <<argv, env, child>>

\* the state of the notes of App
notesVars == <<notes, activeId, isModalOpen, draft, modalMode, nextUuid>>

-----------------------------------------------------------------------------
(* Bounds of the model *)

MaxUploads == 2     \* handleUpload invocations in one behaviour
MaxTracks == 3      \* accepted files over all uploads of one behaviour
MaxStored == 2      \* ids occurring in the snapshots found in storage
MaxStoredQueue == 3 \* length of a queue found in storage
MaxMonths == 14     \* months of the period the calendar is moved in
MaxSelectDays == 4  \* days of that period whose cells are clicked
MaxArgs == 3        \* arguments on the command line of the dev shim
MaxStoredNotes == 1 \* notes of the list found in storage
MaxCreated == 1     \* notes created with saveDraft in one behaviour

\* the last value uuid() returns: the stored ids, the two of the seed, the created
MaxUuid == MaxStoredNotes + 2 + MaxCreated

(* Program constants *)

DefaultVolume == 90 \* volume 0.9, in hundredths (the range input's step is 0.01)

\* null (and undefined); distinct from every id
NULL == 0

Ids == 1..MaxTracks

(* File names, one character per element. *)
NameA == <<"A", ".", "m", "p", "3">>
NameB == <<"B", ".", "m", "p", "3">>
NameSongUpper == <<"S", "o", "n", "g", ".", "M", "P", "3">>
NameSongWav == <<"S", "o", "n", "g", ".", "w", "a", "v">>

FileNames == {NameA, NameB, NameSongUpper, NameSongWav}

Positions == {0, 7}         \* seconds reported by the audio element or the seek control
Volumes == {DefaultVolume, 40}
Durations == {5}            \* audio.duration reported with the metadata

-----------------------------------------------------------------------------
(* Helpers for JavaScript values *)

\* !x for the values currentId takes: null is falsy, an id is a non-empty string.
Falsy(x) == x = NULL

\* a || b
OrElse(a, b) == IF Falsy(a) THEN b ELSE a

\* arr[i] with a 0-based index; undefined (read as null by the callers' ||) when out of range.
At(arr, i) == IF i >= 0 /\ i < Len(arr) THEN arr[i + 1] ELSE NULL

\* arr.indexOf(x): first 0-based index of x, or -1.
IndexOf(arr, x) ==
    IF \E k \in 1..Len(arr) : arr[k] = x
    THEN (CHOOSE k \in 1..Len(arr) : arr[k] = x /\ \A j \in 1..(k - 1) : arr[j] # x) - 1
    ELSE -1

\* arr.includes(x)
Includes(arr, x) == \E k \in 1..Len(arr) : arr[k] = x

\* String.prototype.toLowerCase on one character of the alphabet used by FileNames.
ToLower(c) ==
    CASE c = "M" -> "m"
      [] c = "P" -> "p"
      [] c = "A" -> "a"
      [] c = "B" -> "b"
      [] c = "S" -> "s"
      [] OTHER -> c

\* the suffix test without the i flag (mutant)
IsMp3_CaseSensitive(name) ==
    /\ Len(name) >= 4
    /\ [k \in 1..4 |-> name[Len(name) - 4 + k]] = <<".", "m", "p", "3">>

\* /\.mp3$/i.test(name): the last four characters are ".mp3" in any letter case.
IsMp3(name) ==
    /\ Len(name) >= 4
    /\ [k \in 1..4 |-> ToLower(name[Len(name) - 4 + k])] = <<".", "m", "p", "3">>

\* name.replace(/\.mp3$/i, '')
StripMp3(name) == IF IsMp3(name) THEN SubSeq(name, 1, Len(name) - 4) ELSE name

\* files.filter((f) => /\.mp3$/i.test(f.name))
FilterMp3(files) == SelectSeq(files, IsMp3)

-----------------------------------------------------------------------------
(* The state updaters of the handlers, as the pure functions the code      *)
(* passes to setLibrary and setState.                                      *)

\* The track object built in handleUpload; url and createdAt are opaque and left out.
NewTrack(id, fileName) ==
    [id |-> id, name |-> StripMp3(fileName), fileName |-> fileName, duration |-> 0]

\* the new track put at the end of the library (mutant)
UploadLibrary_AtEnd(prev, track) == prev \o <<track>>

\* setLibrary((prev) => [track, ...prev])
UploadLibrary(prev, track) == <<track>> \o prev

\* every uploaded track becomes the current one (mutant)
UploadState_NewestCurrent(s, id) ==
    IF Falsy(s.currentId)
    THEN [s EXCEPT !.currentId = id, !.queue = <<id>>]
    ELSE [s EXCEPT !.currentId = id, !.queue = Append(s.queue, id)]

\* a track uploaded while another is selected is not queued (mutant)
UploadState_NoEnqueue(s, id) ==
    IF Falsy(s.currentId)
    THEN [s EXCEPT !.currentId = id, !.queue = <<id>>]
    ELSE s

\* setState updater of handleUpload
UploadState(s, id) ==
    IF Falsy(s.currentId)
    THEN [s EXCEPT !.currentId = id, !.queue = <<id>>]
    ELSE [s EXCEPT !.queue = Append(s.queue, id)]

\* playTrack that moves the track to the end of the queue (mutant)
PlayTrackState_MoveToEnd(s, id) ==
    [s EXCEPT !.currentId = id,
              !.queue = Append(SelectSeq(s.queue, LAMBDA q : q # id), id)]

\* playTrack that appends the id without looking for it (mutant)
PlayTrackState_AlwaysAppend(s, id) ==
    [s EXCEPT !.currentId = id, !.queue = s.queue \o <<id>>]

\* setState updater of playTrack
PlayTrackState(s, id) ==
    [s EXCEPT !.currentId = id,
              !.queue = IF Includes(s.queue, id) THEN s.queue ELSE Append(s.queue, id)]

\* setLibrary updater of removeTrack
RemoveTrackLibrary(prev, id) == SelectSeq(prev, LAMBDA t : t.id # id)

\* removeTrack that leaves currentId alone (mutant)
RemoveTrackState_KeepCurrent(s, id) ==
    [s EXCEPT !.queue = SelectSeq(s.queue, LAMBDA q : q # id)]

\* removeTrack that forgets the queue (mutant)
RemoveTrackState_KeepQueue(s, id) ==
    IF s.currentId = id
    THEN [s EXCEPT !.currentId = OrElse(At(SelectSeq(s.queue, LAMBDA q : q # id), 0), NULL),
                   !.position = 0]
    ELSE s

\* removeTrack that does not rewind (mutant)
RemoveTrackState_KeepPosition(s, id) ==
    LET newQueue == SelectSeq(s.queue, LAMBDA q : q # id)
    IN  IF s.currentId = id
        THEN [s EXCEPT !.queue = newQueue, !.currentId = OrElse(At(newQueue, 0), NULL)]
        ELSE [s EXCEPT !.queue = newQueue]

\* removing the current track leaves no track current (mutant)
RemoveTrackState_NullCurrent(s, id) ==
    LET newQueue == SelectSeq(s.queue, LAMBDA q : q # id)
        newState == [s EXCEPT !.queue = newQueue]
    IN  IF s.currentId = id
        THEN [newState EXCEPT !.currentId = NULL, !.position = 0]
        ELSE newState

\* setState updater of removeTrack
RemoveTrackState(s, id) ==
    LET newQueue == SelectSeq(s.queue, LAMBDA q : q # id)
        newState == [s EXCEPT !.queue = newQueue]
    IN  IF s.currentId = id
        THEN [newState EXCEPT !.currentId = OrElse(At(newQueue, 0), NULL), !.position = 0]
        ELSE newState

\* playNext whose bound check lets the last index through (mutant)
NextId_PastEnd(queue, currentId) ==
    LET idx == IndexOf(queue, currentId)
    IN  IF idx >= 0 /\ idx < Len(queue) THEN At(queue, idx + 1) ELSE At(queue, 0)

\* playNext that stays on the last entry (mutant)
NextId_StayAtEnd(queue, currentId) ==
    LET idx == IndexOf(queue, currentId)
    IN  IF idx >= 0 /\ idx < Len(queue) - 1 THEN At(queue, idx + 1)
        ELSE IF idx >= 0 THEN currentId
        ELSE At(queue, 0)

\* nextId of playNext
NextId(queue, currentId) ==
    LET idx == IndexOf(queue, currentId)
    IN  IF idx >= 0 /\ idx < Len(queue) - 1 THEN At(queue, idx + 1) ELSE At(queue, 0)

\* playPrev that falls back to the head when currentId is not found (mutant)
PrevId_HeadWhenMissing(queue, currentId) ==
    LET idx == IndexOf(queue, currentId)
    IN  IF idx > 0 THEN At(queue, idx - 1)
        ELSE IF idx = 0 THEN At(queue, Len(queue) - 1)
        ELSE At(queue, 0)

\* prevId of playPrev
PrevId(queue, currentId) ==
    LET idx == IndexOf(queue, currentId)
    IN  IF idx > 0 THEN At(queue, idx - 1) ELSE At(queue, Len(queue) - 1)

\* playNext as a function of the rendered state
PlayNextState(s) ==
    IF Len(s.queue) = 0
    THEN s
    ELSE [s EXCEPT !.currentId = NextId(s.queue, s.currentId), !.position = 0]

\* playPrev as a function of the rendered state
PlayPrevState(s) ==
    IF Len(s.queue) = 0
    THEN s
    ELSE [s EXCEPT !.currentId = PrevId(s.queue, s.currentId), !.position = 0]

\* library.find((t) => t.id === state.currentId) finds a track
HasCurrentTrack(lib, s) == \E k \in 1..Len(lib) : lib[k].id = s.currentId

\* currentTrack, when the find succeeds: the first track with the current id
CurrentTrack(lib, s) ==
    lib[CHOOSE k \in 1..Len(lib) :
            /\ lib[k].id = s.currentId
            /\ \A j \in 1..(k - 1) : lib[j].id # s.currentId]

\* the duration written onto every track (mutant)
MetadataLibrary_AllTracks(prev, id, duration) ==
    [k \in 1..Len(prev) |-> [prev[k] EXCEPT !.duration = duration]]

\* setLibrary updater of onLoadedMetadata
MetadataLibrary(prev, id, duration) ==
    [k \in 1..Len(prev) |->
        IF prev[k].id = id THEN [prev[k] EXCEPT !.duration = duration] ELSE prev[k]]

LibraryIds(lib) == {lib[k].id : k \in 1..Len(lib)}

-----------------------------------------------------------------------------
(* Initial states *)

\* loadPlaybackState() when the key is missing
DefaultState == [currentId |-> NULL, position |-> 0, volume |-> DefaultVolume, queue |-> <<>>]

\* history records: the handler, and for playNext and playPrev the index
\* that indexOf gave for currentId
Ran(op) == [op |-> op]

RanAt(op, idx) == [op |-> op, idx |-> idx]

NoHistory == Ran("init")

-----------------------------------------------------------------------------
(* CalendarView: dates *)

(* A Date is its local calendar day, counted from 1970-01-01, and its hour *)
(* of the day; Invalid Date is the value `new Date(text)` gives for a text  *)
(* that is no timestamp.  Months are numbered from 0 as getMonth does.     *)
DateOf(day, hour) == [kind |-> "date", day |-> day, hour |-> hour]

InvalidDate == [kind |-> "invalid", day |-> 0, hour |-> 0]

\* null in the place of a Date
NullDate == [kind |-> "null", day |-> 0, hour |-> 0]

IsLeap(y) == (y % 4 = 0 /\ y % 100 # 0) \/ y % 400 = 0

DaysInMonth(y, m) ==
    IF m = 1 THEN (IF IsLeap(y) THEN 29 ELSE 28)
    ELSE IF m \in {3, 5, 8, 10} THEN 30 ELSE 31

\* days from 1970-01-01 to January 1st of year y
DaysBeforeYear(y) ==
    365 * (y - 1970) + ((y - 1969) \div 4) - ((y - 1901) \div 100) + ((y - 1601) \div 400)

\* days from January 1st to the 1st of each month of a common year
CommonYear == <<0, 31, 59, 90, 120, 151, 181, 212, 243, 273, 304, 334>>

\* days from January 1st of year y to the 1st of month m
DaysBeforeMonth(y, m) == CommonYear[m + 1] + (IF m > 1 /\ IsLeap(y) THEN 1 ELSE 0)

\* new Date(y, m, d) at the given hour: a month outside 0..11 and a day
\* outside the month carry over, as the Date constructor and setters do
MakeDate(y, m, d, hour) ==
    LET yy == y + (m \div 12)
        mm == m % 12
    IN  DateOf(DaysBeforeYear(yy) + DaysBeforeMonth(yy, mm) + d - 1, hour)

\* the calendar fields of a date
Fields(d) ==
    LET y == CHOOSE y \in (1970 + (d.day \div 366))..(1970 + (d.day \div 365)) :
                 DaysBeforeYear(y) <= d.day /\ d.day < DaysBeforeYear(y + 1)
        n == d.day - DaysBeforeYear(y)
        m == CHOOSE m \in 0..11 :
                 DaysBeforeMonth(y, m) <= n /\ n < DaysBeforeMonth(y, m) + DaysInMonth(y, m)
    IN  [year |-> y, month |-> m, date |-> n - DaysBeforeMonth(y, m) + 1]

\* d.getFullYear()
GetFullYear(d) == Fields(d).year

\* d.getMonth()
GetMonth(d) == Fields(d).month

\* d.getDate()
GetDate(d) == Fields(d).date

\* d.getDay(): 0 is Sunday; 1970-01-01 was a Thursday
GetDay(d) == (d.day + 4) % 7

\* startOfDay(d)
StartOfDay(d) == IF d.kind = "date" THEN [d EXCEPT !.hour = 0] ELSE d

\* addDays(d, n)
AddDays(d, n) ==
    IF d.kind = "date"
    THEN LET f == Fields(d) IN MakeDate(f.year, f.month, f.date + n, d.hour)
    ELSE d

\* addMonths(d, n)
AddMonths(d, n) ==
    IF d.kind = "date"
    THEN LET f == Fields(d) IN MakeDate(f.year, f.month + n, f.date, d.hour)
    ELSE d

\* days of a week, the factor of addWeeks and the length of weekDays
WeekLength == 7

\* addWeeks(d, n)
AddWeeks(d, n) == AddDays(d, n * WeekLength)

\* cells of the month grid
GridCells == 42

\* the grid started on the 1st of the month (mutant)
GetMonthGrid_FromFirst(anchor) ==
    LET f == Fields(anchor)
        firstOfMonth == MakeDate(f.year, f.month, 1, 0)
    IN  [i \in 1..GridCells |-> AddDays(firstOfMonth, i - 1)]

\* a grid of five weeks (mutant)
GetMonthGrid_FiveWeeks(anchor) ==
    LET f == Fields(anchor)
        firstOfMonth == MakeDate(f.year, f.month, 1, 0)
        startWeekday == GetDay(firstOfMonth)
        gridStart == AddDays(firstOfMonth, -startWeekday)
    IN  [i \in 1..(GridCells - WeekLength) |-> AddDays(gridStart, i - 1)]

\* getMonthGrid(anchor): days[i] is element i + 1
GetMonthGrid(anchor) ==
    LET f == Fields(anchor)
        firstOfMonth == MakeDate(f.year, f.month, 1, 0)
        startWeekday == GetDay(firstOfMonth)
        gridStart == AddDays(firstOfMonth, -startWeekday)
    IN  [i \in 1..GridCells |-> AddDays(gridStart, i - 1)]

\* the week started on Monday (mutant)
WeekDays_FromMonday(cur) ==
    LET weekday == GetDay(cur)
        start == AddDays(cur, -(weekday - 1))
    IN  [i \in 1..WeekLength |-> AddDays(start, i - 1)]

\* weekDays, the memo over current
WeekDays(cur) ==
    LET weekday == GetDay(cur)
        start == AddDays(cur, -weekday)
    IN  [i \in 1..WeekLength |-> AddDays(start, i - 1)]

\* the month step back taken as thirty days (mutant)
GoPrevCurrent_ThirtyDays(v, c) ==
    IF v = "month" THEN StartOfDay(AddDays(c, -30))
    ELSE IF v = "week" THEN StartOfDay(AddWeeks(c, -1))
    ELSE StartOfDay(AddDays(c, -1))

\* the updater goPrev passes to setCurrent
GoPrevCurrent(v, c) ==
    IF v = "month" THEN StartOfDay(AddMonths(c, -1))
    ELSE IF v = "week" THEN StartOfDay(AddWeeks(c, -1))
    ELSE StartOfDay(AddDays(c, -1))

\* the updater goNext passes to setCurrent
GoNextCurrent(v, c) ==
    IF v = "month" THEN StartOfDay(AddMonths(c, 1))
    ELSE IF v = "week" THEN StartOfDay(AddWeeks(c, 1))
    ELSE StartOfDay(AddDays(c, 1))

-----------------------------------------------------------------------------
(* JSON text and localStorage *)

(* A JSON text is the sequence of its tokens.  A token is a punctuator    *)
(* ("{", "}", "[", "]", ",", ":"), the literal null, a property name, a    *)
(* number, a string of characters, or the string of an id made by uid().   *)
Tok(t) == [t |-> t, s |-> <<>>, n |-> 0]

Key(k) == [t |-> "key", s |-> <<k>>, n |-> 0]

Num(n) == [t |-> "num", s |-> <<>>, n |-> n]

Str(s) == [t |-> "str", s |-> s, n |-> 0]

IdStr(id) == [t |-> "id", s |-> <<>>, n |-> id]

\* JSON.stringify of a value that is null or an id
StringifyId(id) == IF id = NULL THEN Tok("null") ELSE IdStr(id)

\* JSON.stringify of an array, given the texts of its elements
StringifyArray(texts) ==
    LET RECURSIVE Join(_)
        Join(k) == IF k = 0 THEN <<>>
                   ELSE IF k = 1 THEN texts[1]
                   ELSE Join(k - 1) \o <<Tok(",")>> \o texts[k]
    IN  <<Tok("[")>> \o Join(Len(texts)) \o <<Tok("]")>>

\* JSON.stringify of a track
StringifyTrack(t) ==
    <<Tok("{"), Key("id"), Tok(":"), StringifyId(t.id), Tok(","),
      Key("name"), Tok(":"), Str(t.name), Tok(","),
      Key("fileName"), Tok(":"), Str(t.fileName), Tok(","),
      Key("duration"), Tok(":"), Num(t.duration), Tok("}")>>

\* JSON.stringify(lib)
StringifyLibrary(lib) == StringifyArray([k \in 1..Len(lib) |-> StringifyTrack(lib[k])])

\* the bundle with its queue replaced by another one (mutant)
StringifyState_NoQueue(s) ==
    <<Tok("{"), Key("currentId"), Tok(":"), StringifyId(s.currentId), Tok(","),
      Key("position"), Tok(":"), Num(s.position), Tok(","),
      Key("volume"), Tok(":"), Num(s.volume), Tok(","),
      Key("queue"), Tok(":")>>
    \o StringifyArray(<<>>)
    \o <<Tok("}")>>

\* JSON.stringify(state)
StringifyState(s) ==
    <<Tok("{"), Key("currentId"), Tok(":"), StringifyId(s.currentId), Tok(","),
      Key("position"), Tok(":"), Num(s.position), Tok(","),
      Key("volume"), Tok(":"), Num(s.volume), Tok(","),
      Key("queue"), Tok(":")>>
    \o StringifyArray([k \in 1..Len(s.queue) |-> <<StringifyId(s.queue[k])>>])
    \o <<Tok("}")>>

\* the outcome of a parse that throws SyntaxError
SyntaxError == [ok |-> FALSE, val |-> NULL, next |-> 0]

Parsed(val, next) == [ok |-> TRUE, val |-> val, next |-> next]

RECURSIVE ParseValue(_, _), ParseElements(_, _, _), ParseMembers(_, _, _)

\* one JSON value read from token i on; next is the token after it
ParseValue(toks, i) ==
    IF i > Len(toks) THEN SyntaxError
    ELSE LET tk == toks[i]
         IN  CASE tk.t = "null" -> Parsed(NULL, i + 1)
               [] tk.t = "num" -> Parsed(tk.n, i + 1)
               [] tk.t = "id" -> Parsed(tk.n, i + 1)
               [] tk.t = "str" -> Parsed(tk.s, i + 1)
               [] tk.t = "[" -> IF i < Len(toks) /\ toks[i + 1].t = "]"
                                THEN Parsed(<<>>, i + 2)
                                ELSE ParseElements(toks, i + 1, <<>>)
               [] tk.t = "{" -> IF i < Len(toks) /\ toks[i + 1].t = "}"
                                THEN Parsed(<<>>, i + 2)
                                ELSE ParseMembers(toks, i + 1, <<>>)
               [] OTHER -> SyntaxError

\* the elements of an array after "[" or ",", up to "]"
ParseElements(toks, i, acc) ==
    LET v == ParseValue(toks, i)
    IN  IF ~v.ok \/ v.next > Len(toks) THEN SyntaxError
        ELSE IF toks[v.next].t = "," THEN ParseElements(toks, v.next + 1, Append(acc, v.val))
        ELSE IF toks[v.next].t = "]" THEN Parsed(Append(acc, v.val), v.next + 1)
        ELSE SyntaxError

\* the members of an object after "{" or ",", up to "}"; a repeated name keeps
\* its last value
ParseMembers(toks, i, acc) ==
    IF i + 1 > Len(toks) \/ toks[i].t # "key" \/ toks[i + 1].t # ":" THEN SyntaxError
    ELSE LET v == ParseValue(toks, i + 2)
             obj == (toks[i].s[1] :> v.val) @@ acc
         IN  IF ~v.ok \/ v.next > Len(toks) THEN SyntaxError
             ELSE IF toks[v.next].t = "," THEN ParseMembers(toks, v.next + 1, obj)
             ELSE IF toks[v.next].t = "}" THEN Parsed(obj, v.next + 1)
             ELSE SyntaxError

\* JSON.parse(raw): the value, or ok = FALSE when it throws
JSONParse(raw) ==
    LET v == ParseValue(raw, 1)
    IN  IF v.ok /\ v.next = Len(raw) + 1 THEN v ELSE SyntaxError

STORAGE_KEY_LIBRARY == "music-library-v1"

STORAGE_KEY_STATE == "music-playback-state-v1"

PlayerKeys == {STORAGE_KEY_LIBRARY, STORAGE_KEY_STATE}

\* localStorage.getItem(key) is null
Missing(store, key) == key \notin DOMAIN store

\* `raw ? JSON.parse(raw) : []` inside try { } catch { return [] }
LoadLibrary(store) ==
    IF Missing(store, STORAGE_KEY_LIBRARY) \/ store[STORAGE_KEY_LIBRARY] = <<>> THEN <<>>
    ELSE LET v == JSONParse(store[STORAGE_KEY_LIBRARY])
         IN  IF v.ok THEN v.val ELSE <<>>

\* `raw ? JSON.parse(raw) : {currentId: null, ...}` inside try { } catch
LoadPlaybackState(store) ==
    IF Missing(store, STORAGE_KEY_STATE) \/ store[STORAGE_KEY_STATE] = <<>> THEN DefaultState
    ELSE LET v == JSONParse(store[STORAGE_KEY_STATE])
         IN  IF v.ok THEN v.val ELSE DefaultState

\* a rejected write removes the item (mutant)
SetItem_RemovesOnFailure(store, key, text, rejected) ==
    IF key \in rejected THEN [k \in DOMAIN store \ {key} |-> store[k]]
    ELSE (key :> text) @@ store

\* localStorage.setItem(key, text) inside try { } catch { }: the item is
\* written, or setItem throws and the store is left as it was
SetItem(store, key, text, rejected) ==
    IF key \in rejected THEN store ELSE (key :> text) @@ store

\* saveLibrary(lib)
SaveLibrary(store, lib, rejected) ==
    SetItem(store, STORAGE_KEY_LIBRARY, StringifyLibrary(lib), rejected)

\* savePlaybackState(state)
SavePlaybackState(store, s, rejected) ==
    SetItem(store, STORAGE_KEY_STATE, StringifyState(s), rejected)

\* the effect on the bundle left out (mutant)
PersistStore_LibraryOnly(store, ranLibrary, lib, ranState, s, rejected) ==
    IF ranLibrary THEN SaveLibrary(store, lib, rejected) ELSE store

\* the two persist effects, library first, each run when its setter was called
\* with a new value (ranLibrary, ranState)
PersistStore(store, ranLibrary, lib, ranState, s, rejected) ==
    LET afterLibrary == IF ranLibrary THEN SaveLibrary(store, lib, rejected) ELSE store
    IN  IF ranState THEN SavePlaybackState(afterLibrary, s, rejected) ELSE afterLibrary

\* <audio ref={audioRef} ... /> as rendered: no src attribute, paused.  The src
\* attribute is the url of a track, named here by the id of the track.
NoAudio == [src |-> NULL, paused |-> TRUE]

\* the outcome of one audio.play(): the promise is rejected by a host that
\* blocks playback, and resolves once playback has started otherwise
PlayOutcome(rejected) == IF rejected THEN "rejected" ELSE "started"

\* audio.play(): a rejected request leaves the element paused
PlayAudio(a, rejected) == [a EXCEPT !.paused = rejected]

\* the track-change effect.  audio.src = url starts the load of the resource,
\* which pauses the element, and audio.play() follows; removeAttribute('src')
\* loads nothing and leaves paused as it is.
TrackChangeAudio(a, hasTrack, id, rejected) ==
    IF hasTrack
    THEN PlayAudio([src |-> id, paused |-> TRUE], rejected)
    ELSE [a EXCEPT !.src = NULL]

\* currentTrack, the dependency of the track-change effect, is another object
\* after the step: another track or none is found (the track found has the id
\* currentId), or the handler has put a new object in the place of the track
\* (replaced)
CurrentTrackChanged(hadTrack, hasTrack, replaced) ==
    \/ hadTrack # hasTrack
    \/ /\ hadTrack
       /\ hasTrack
       /\ (state.currentId # state'.currentId \/ replaced)

\* what follows a handler of MusicPlayer: the persist effects and the
\* track-change effect, each run when its dependency has changed, and nothing
\* of the other components
Commit(ranLibrary, ranState, replaced) ==
    /\ localStorage' =
           PersistStore(localStorage, ranLibrary, library', ranState, state', failing)
    /\ IF CurrentTrackChanged(HasCurrentTrack(library, state),
                              HasCurrentTrack(library', state'), replaced)
       THEN /\ audio' = TrackChangeAudio(audio, HasCurrentTrack(library', state'),
                                           state'.currentId, blocking)
            /\ request' = IF HasCurrentTrack(library', state')
                          THEN PlayOutcome(blocking)
                          ELSE "none"
       ELSE /\ audio' = audio
            /\ request' = "none"
    /\ UNCHANGED <<failing, blocking, view, current, selected, shimVars, notesVars>>

\* a handler that replaces no track object
Persist(ranLibrary, ranState) == Commit(ranLibrary, ranState, FALSE)

\* the calendar, not mounted with the player
CalendarIdle ==
    /\ view = "month"
    /\ current = NullDate
    /\ selected = NullDate

\* the audio element after the mount effect and the track-change effect of the
\* first commit, and the play() of that commit, under a host that blocks
\* playback or not
MountAudio(lib, s, rejected) ==
    /\ blocking = rejected
    /\ audio = TrackChangeAudio(NoAudio, HasCurrentTrack(lib, s), s.currentId, rejected)
    /\ request = IF HasCurrentTrack(lib, s) THEN PlayOutcome(rejected) ELSE "none"

\* the dev shim, not run
NoChild ==
    [spawned |-> FALSE, cmd |-> "", args |-> <<>>, env |-> <<>>, exited |-> FALSE,
     exitCode |-> 0]

ShimIdle ==
    /\ argv = <<>>
    /\ env = <<>>
    /\ child = NoChild

\* the draft of a closed modal
EmptyDraft == [title |-> <<>>, content |-> <<>>]

\* the notes, not mounted
NotesIdle ==
    /\ notes = <<>>
    /\ activeId = NULL
    /\ isModalOpen = FALSE
    /\ draft = EmptyDraft
    /\ modalMode = "create"
    /\ nextUuid = 1

\* the store after the two persist effects of the first commit
MountStore(store, lib, s, rejected) == PersistStore(store, TRUE, lib, TRUE, s, rejected)

-----------------------------------------------------------------------------
(* Initial state of MusicPlayer *)

Init ==
    /\ library = <<>>
    /\ state = DefaultState
    /\ uploads = <<>>
    /\ nextUid = 1
    /\ removed = {}
    /\ last = NoHistory
    /\ failing = PlayerKeys     \* the store is empty and rejects every write
    /\ localStorage = MountStore(<<>>, library, state, failing)
    /\ MountAudio(library, state, TRUE)
    /\ CalendarIdle
    /\ ShimIdle
    /\ NotesIdle

-----------------------------------------------------------------------------
(* handleUpload *)

\* the one message handleUpload gives to alert(): its text, and the numbers
\* put into the text
SkippedAlert ==
    [text |-> "Only .mp3 files are accepted. Skipped non-mp3 files.", numbers |-> <<>>]

\* The file selections offered to the upload control.
Batches == {<<NameA, NameB>>, <<NameSongUpper, NameSongWav>>, <<NameSongWav>>}

\* accepted files of the uploads started so far
Accepted(ups) ==
    LET RECURSIVE Sum(_)
        Sum(k) == IF k = 0 THEN 0 ELSE Len(ups[k].mp3s) + Sum(k - 1)
    IN  Sum(Len(ups))

\* handleUpload up to its first await: filter, alert, first read started.
StartUpload(files) ==
    LET mp3s == FilterMp3(files)
        nonMp3Count == Len(files) - Len(mp3s)
    IN  /\ Len(uploads) < MaxUploads
        /\ Accepted(uploads) + Len(mp3s) <= MaxTracks
        /\ uploads' = Append(uploads,
                [files |-> files,
                 mp3s |-> mp3s,
                 nonMp3Count |-> nonMp3Count,
                 i |-> 0,
                 alerted |-> nonMp3Count > 0,
                 alerts |-> IF nonMp3Count > 0 THEN <<SkippedAlert>> ELSE <<>>,
                 status |-> IF Len(mp3s) = 0 THEN "done" ELSE "reading",
                 made |-> <<>>])
        /\ last' = Ran("upload")
        /\ UNCHANGED <<library, state, nextUid, removed>>
        /\ Persist(FALSE, FALSE)

\* The read of the current file completes: the loop body after the await, then
\* either the next read is started or the handler returns.
ReadDone(u) ==
    LET up == uploads[u]
        file == up.mp3s[up.i + 1]
        track == NewTrack(nextUid, file)
    IN  /\ up.status = "reading"
        /\ library' = UploadLibrary(library, track)
        /\ state' = UploadState(state, track.id)
        /\ nextUid' = nextUid + 1
        /\ uploads' = [uploads EXCEPT ![u] =
                [up EXCEPT !.i = up.i + 1,
                           !.made = Append(up.made, track.id),
                           !.status = IF up.i + 1 < Len(up.mp3s) THEN "reading" ELSE "done"]]
        /\ last' = Ran("read")
        /\ UNCHANGED removed
        /\ Persist(TRUE, TRUE)

\* a failed read skips the file and the loop goes on (mutant)
ReadFail_SkipFile(u) ==
    /\ uploads[u].status = "reading"
    /\ uploads' = [uploads EXCEPT ![u] =
            [@ EXCEPT !.i = @ + 1,
                      !.status = IF uploads[u].i + 1 < Len(uploads[u].mp3s)
                                 THEN "reading" ELSE "done"]]
    /\ last' = Ran("readfail")
    /\ UNCHANGED <<library, state, nextUid, removed>>
    /\ Persist(FALSE, FALSE)

\* The read of the current file fails: the await throws and the handler ends there.
ReadFail(u) ==
    /\ uploads[u].status = "reading"
    /\ uploads' = [uploads EXCEPT ![u].status = "failed"]
    /\ last' = Ran("readfail")
    /\ UNCHANGED <<library, state, nextUid, removed>>
    /\ Persist(FALSE, FALSE)

-----------------------------------------------------------------------------
(* The synchronous handlers *)

\* playTrack(t.id), offered for the tracks of the rendered library
PlayTrack(id) ==
    /\ id \in LibraryIds(library)
    /\ state' = PlayTrackState(state, id)
    /\ last' = Ran("play")
    /\ UNCHANGED <<library, uploads, nextUid, removed>>
    /\ Persist(FALSE, TRUE)

\* removeTrack(t.id), offered for the tracks of the rendered library
RemoveTrack(id) ==
    /\ id \in LibraryIds(library)
    /\ library' = RemoveTrackLibrary(library, id)
    /\ state' = RemoveTrackState(state, id)
    /\ removed' = removed \cup {id}
    /\ last' = Ran("remove")
    /\ UNCHANGED <<uploads, nextUid>>
    /\ Persist(TRUE, TRUE)

PlayNext ==
    /\ state' = PlayNextState(state)
    /\ last' = RanAt("next", IndexOf(state.queue, state.currentId))
    /\ UNCHANGED <<library, uploads, nextUid, removed>>
    /\ Persist(FALSE, Len(state.queue) # 0)

PlayPrev ==
    /\ state' = PlayPrevState(state)
    /\ last' = RanAt("prev", IndexOf(state.queue, state.currentId))
    /\ UNCHANGED <<library, uploads, nextUid, removed>>
    /\ Persist(FALSE, Len(state.queue) # 0)

\* onEnded that does not wrap around after the last entry (mutant)
OnEnded_StopAtEnd ==
    /\ state' = IF IndexOf(state.queue, state.currentId) = Len(state.queue) - 1
                THEN state
                ELSE PlayNextState(state)
    /\ last' = RanAt("ended", IndexOf(state.queue, state.currentId))
    /\ UNCHANGED <<library, uploads, nextUid, removed>>
    /\ Persist(FALSE, Len(state.queue) # 0)

\* onEnded: playNext()
OnEnded ==
    /\ state' = PlayNextState(state)
    /\ last' = RanAt("ended", IndexOf(state.queue, state.currentId))
    /\ UNCHANGED <<library, uploads, nextUid, removed>>
    /\ Persist(FALSE, Len(state.queue) # 0)

\* onTimeUpdate with audio.currentTime = t
OnTimeUpdate(t) ==
    /\ state' = [state EXCEPT !.position = t]
    /\ last' = Ran("timeupdate")
    /\ UNCHANGED <<library, uploads, nextUid, removed>>
    /\ Persist(FALSE, TRUE)

\* what is read from the seek control as e.target.value: the empty text and "7"
SeekTexts == {<<>>, <<"7">>}

\* the value of a decimal digit
DigitValue(c) ==
    CASE c = "0" -> 0 [] c = "1" -> 1 [] c = "2" -> 2 [] c = "3" -> 3 [] c = "4" -> 4
      [] c = "5" -> 5 [] c = "6" -> 6 [] c = "7" -> 7 [] c = "8" -> 8 [] c = "9" -> 9

\* Number(text) for a text of decimal digits
RECURSIVE NumberOf(_)
NumberOf(text) ==
    IF text = <<>> THEN 0
    ELSE 10 * NumberOf(SubSeq(text, 1, Len(text) - 1)) + DigitValue(text[Len(text)])

\* Number(e.target.value || 0)
SeekValue(text) == IF text = <<>> THEN NumberOf(<<"0">>) ELSE NumberOf(text)

\* history record of onSeek: the text read from the control
RanWith(op, text) == [op |-> op, text |-> text]

\* the position kept within the duration the audio element reports (mutant)
SeekState_Clamped(s, val) ==
    LET duration == CHOOSE d \in Durations : TRUE
    IN  [s EXCEPT !.position = IF val > duration THEN duration ELSE val]

\* setState((s) => ({ ...s, position: val }))
SeekState(s, val) == [s EXCEPT !.position = val]

\* onSeek with e.target.value = text
OnSeek(text) ==
    /\ state' = SeekState(state, SeekValue(text))
    /\ last' = RanWith("seek", text)
    /\ UNCHANGED <<library, uploads, nextUid, removed>>
    /\ Persist(FALSE, TRUE)

\* onVolume with e.target.value = v
OnVolume(v) ==
    /\ state' = [state EXCEPT !.volume = v]
    /\ last' = Ran("volume")
    /\ UNCHANGED <<library, uploads, nextUid, removed>>
    /\ Persist(FALSE, TRUE)

\* onLoadedMetadata with audio.duration = d; returns at once without a current track
OnLoadedMetadata(d) ==
    LET currentTrack == CurrentTrack(library, state)
    IN  /\ library' = IF ~HasCurrentTrack(library, state)
                      THEN library
                      ELSE MetadataLibrary(library, currentTrack.id, d)
        /\ last' = Ran("metadata")
        /\ UNCHANGED <<state, uploads, nextUid, removed>>
        /\ Commit(HasCurrentTrack(library, state), FALSE, HasCurrentTrack(library, state))

\* togglePlayPause: returns at once without a current track; play() on a paused
\* element, with the rejection swallowed, and pause() on a playing one
TogglePlayPause ==
    /\ audio' = IF ~HasCurrentTrack(library, state) THEN audio
                ELSE IF audio.paused THEN PlayAudio(audio, blocking)
                ELSE [audio EXCEPT !.paused = TRUE]
    /\ request' = IF HasCurrentTrack(library, state) /\ audio.paused
                  THEN PlayOutcome(blocking)
                  ELSE "none"
    /\ last' = Ran("toggle")
    /\ UNCHANGED <<playerVars, localStorage, failing, blocking, view, current, selected,
                   shimVars, notesVars>>

-----------------------------------------------------------------------------

\* the handlers that run to completion in one event
Handlers ==
    \/ \E id \in Ids : PlayTrack(id)
    \/ \E id \in Ids : RemoveTrack(id)
    \/ PlayNext
    \/ PlayPrev
    \/ OnEnded
    \/ \E t \in Positions : OnTimeUpdate(t)
    \/ \E text \in SeekTexts : OnSeek(text)
    \/ \E v \in Volumes : OnVolume(v)
    \/ \E d \in Durations : OnLoadedMetadata(d)
    \/ TogglePlayPause

Next ==
    \/ \E files \in Batches : StartUpload(files)
    \/ \E u \in 1..Len(uploads) : ReadDone(u)
    \/ \E u \in 1..Len(uploads) : ReadFail(u)
    \/ Handlers

Spec == Init /\ [][Next]_vars

-----------------------------------------------------------------------------
(* A session that starts from snapshots found in storage.  loadLibrary and *)
(* loadPlaybackState return whatever JSON.parse yields, without validating *)
(* it, and the two snapshots are stored under separate keys: the queue may *)
(* hold an id twice or an id of no track, and currentId may be any id.     *)
(* The session is followed up to its first upload.                         *)

StoredIds == 1..MaxStored

StoredTrack(id, d) == [id |-> id, name |-> <<"A">>, fileName |-> NameA, duration |-> d]

\* library snapshots: tracks of distinct ids, newest first
StoredLibraries ==
    {lib \in UNION {[1..n -> {StoredTrack(id, d) : id \in StoredIds, d \in {0} \cup Durations}] :
                        n \in 0..MaxStored} :
        \A j, k \in 1..Len(lib) : j < k => lib[j].id > lib[k].id}

StoredStates ==
    [currentId : {NULL} \cup StoredIds,
     position : Positions,
     volume : Volumes,
     queue : UNION {[1..n -> StoredIds] : n \in 0..MaxStoredQueue}]

InitLoaded ==
    /\ library \in StoredLibraries
    /\ state \in StoredStates
    /\ uploads = <<>>
    /\ nextUid = MaxStored + 1
    /\ removed = {}
    /\ last = NoHistory
    /\ failing = {}             \* the store accepts every write
    /\ localStorage = MountStore(<<>>, library, state, failing)
    /\ MountAudio(library, state, TRUE)
    /\ CalendarIdle
    /\ ShimIdle
    /\ NotesIdle

SpecLoaded == InitLoaded /\ [][Handlers]_vars

-----------------------------------------------------------------------------
(* CalendarView: stored preferences *)

KEY_VIEW == "calendar-view"

KEY_SELECTED == "calendar-selected"

\* the views with a tab button and a grid
Views == {"month", "week", "day"}

(* The text kept under calendar-selected: a timestamp with its date        *)
(* fields, the empty string, or any other text.                            *)
TimestampText(d) == [text |-> "timestamp", day |-> d.day, hour |-> d.hour]

EmptyText == [text |-> "", day |-> 0, hour |-> 0]

OtherText == [text |-> "someday", day |-> 0, hour |-> 0]

\* new Date(raw) for a string
ParseDate(raw) == IF raw.text = "timestamp" THEN DateOf(raw.day, raw.hour) ELSE InvalidDate

\* the initialiser of view: localStorage.getItem('calendar-view') || 'month'
LoadView(store) ==
    IF Missing(store, KEY_VIEW) \/ store[KEY_VIEW] = "" THEN "month" ELSE store[KEY_VIEW]

\* the initialiser of selected: raw ? startOfDay(new Date(raw)) : null
LoadSelected(store) ==
    IF Missing(store, KEY_SELECTED) \/ store[KEY_SELECTED] = EmptyText THEN NullDate
    ELSE StartOfDay(ParseDate(store[KEY_SELECTED]))

\* the effect on view: setItem('calendar-view', view) inside try { } catch { }
SaveView(store, v, rejected) == SetItem(store, KEY_VIEW, v, rejected)

\* the effect on selected: toISOString() throws RangeError on an Invalid Date,
\* before setItem is called
SaveSelected(store, sel, rejected) ==
    IF sel.kind = "invalid" THEN store
    ELSE SetItem(store, KEY_SELECTED,
                 IF sel.kind = "null" THEN EmptyText ELSE TimestampText(sel), rejected)

-----------------------------------------------------------------------------
(* CalendarView: the component *)

\* the first day of the modelled period, 2024-01-01
WindowStart == MakeDate(2024, 0, 1, 0).day

\* its last day
WindowEnd == MakeDate(2024, MaxMonths, 1, 0).day - 1

InWindow(d) == d.kind = "date" /\ WindowStart <= d.day /\ d.day <= WindowEnd

\* the moments `new Date()` returns: an afternoon, and the midnight a day later
Clock == {MakeDate(2024, 0, 31, 15), MakeDate(2024, 1, 1, 0)}

\* the cells the user clicks lie in the first days of the period
Selectable(d) == d.kind = "date" /\ d.day < WindowStart + MaxSelectDays

\* what the preferences keys hold when the component is constructed
ViewTexts == Views \cup {"year", ""}

SelectedTexts == {EmptyText, OtherText, TimestampText(DateOf(WindowStart + 1, 15))}

\* the stores in which a key is missing or holds one of the texts
StoresOf(key, texts) == {<<>>} \cup {key :> t : t \in texts}

CalendarStores ==
    {a @@ b : a \in StoresOf(KEY_VIEW, ViewTexts), b \in StoresOf(KEY_SELECTED, SelectedTexts)}

\* history record of the construction: the store the initialisers read
Mounted(store) == [op |-> "mount", store |-> store]

\* history record of goNext and of a click on a date: the anchor the step was
\* applied to, the date that was clicked
RanFrom(op, from) == [op |-> op, from |-> from]

\* history record of a goPrev that directly follows a goNext: the anchor that
\* goNext was applied to
RanBack(op, origin) == [op |-> op, origin |-> origin]

\* the player, not mounted with the calendar
PlayerIdle ==
    /\ library = <<>>
    /\ state = DefaultState
    /\ uploads = <<>>
    /\ nextUid = 1
    /\ removed = {}
    /\ MountAudio(library, state, TRUE)

\* goToday also resets the selection (mutant)
GoToday_ClearSelected(now) ==
    /\ current' = StartOfDay(now)
    /\ selected' = NullDate
    /\ last' = Ran("goToday")
    /\ UNCHANGED <<view, localStorage, failing, playerVars, audioVars, shimVars, notesVars>>

\* goToday
GoToday(now) ==
    /\ current' = StartOfDay(now)
    /\ last' = Ran("goToday")
    /\ UNCHANGED <<view, selected, localStorage, failing, playerVars, audioVars, shimVars, notesVars>>

\* the three initialisers, then the two effects of the first commit
InitCalendar ==
    \E store \in CalendarStores, now \in Clock :
        /\ view = LoadView(store)
        /\ current = StartOfDay(now)
        /\ selected = LoadSelected(store)
        /\ failing = {}
        /\ localStorage = SaveSelected(SaveView(store, view, failing), selected, failing)
        /\ last = Mounted(store)
        /\ PlayerIdle
        /\ ShimIdle
        /\ NotesIdle

\* goPrev
GoPrev ==
    /\ InWindow(GoPrevCurrent(view, current))
    /\ current' = GoPrevCurrent(view, current)
    /\ last' = IF last.op = "goNext" THEN RanBack("goPrev", last.from) ELSE Ran("goPrev")
    /\ UNCHANGED <<view, selected, localStorage, failing, playerVars, audioVars, shimVars, notesVars>>

\* goNext
GoNext ==
    /\ InWindow(GoNextCurrent(view, current))
    /\ current' = GoNextCurrent(view, current)
    /\ last' = RanFrom("goNext", current)
    /\ UNCHANGED <<view, selected, localStorage, failing, playerVars, audioVars, shimVars, notesVars>>

\* a tab button: setView(v), then the effect on view when it changed
SetView(v) ==
    /\ view' = v
    /\ localStorage' = IF v # view THEN SaveView(localStorage, v, failing) ELSE localStorage
    /\ last' = Ran("setView")
    /\ UNCHANGED <<current, selected, failing, playerVars, audioVars, shimVars, notesVars>>

\* the dates with a click handler in the rendered view: the 42 cells, the 7
\* cells, or "Select this day"
Cells(v, c) ==
    IF v = "month" THEN {GetMonthGrid(c)[i] : i \in 1..GridCells}
    ELSE IF v = "week" THEN {WeekDays(c)[i] : i \in 1..WeekLength}
    ELSE IF v = "day" THEN {c}
    ELSE {}

\* a click on a date: setSelected(startOfDay(d)), then the effect on selected
SelectDate(d) ==
    /\ Selectable(d)
    /\ selected' = StartOfDay(d)
    /\ localStorage' = SaveSelected(localStorage, StartOfDay(d), failing)
    /\ last' = RanFrom("selectDate", d)
    /\ UNCHANGED <<view, current, failing, playerVars, audioVars, shimVars, notesVars>>

NextCalendar ==
    \/ \E now \in Clock : GoToday(now)
    \/ GoPrev
    \/ GoNext
    \/ \E v \in Views : SetView(v)
    \/ \E d \in Cells(view, current) : SelectDate(d)

SpecCalendar == InitCalendar /\ [][NextCalendar]_vars

-----------------------------------------------------------------------------
(* MusicPlayer over a store that may reject writes *)

\* a text cut before its last token, which JSON.parse rejects
Truncated(text) == SubSeq(text, 1, Len(text) - 1)

\* a library and a bundle that an earlier session saved
SavedLibrary == <<StoredTrack(2, 5), StoredTrack(1, 0)>>

SavedState == [currentId |-> 1, position |-> 7, volume |-> 40, queue |-> <<1, 2>>]

\* what the two keys hold when the component is constructed
LibraryTexts == {<<>>, Truncated(StringifyLibrary(SavedLibrary)), StringifyLibrary(SavedLibrary)}

StateTexts == {<<>>, Truncated(StringifyState(SavedState)), StringifyState(SavedState)}

PlayerStores ==
    {a @@ b : a \in StoresOf(STORAGE_KEY_LIBRARY, LibraryTexts),
              b \in StoresOf(STORAGE_KEY_STATE, StateTexts)}

\* useState(loadLibrary), useState(loadPlaybackState), then the two persist
\* effects of the first commit, over a store that rejects the keys in failing
InitPersist ==
    \E store \in PlayerStores, rejected \in SUBSET PlayerKeys :
        /\ library = LoadLibrary(store)
        /\ state = LoadPlaybackState(store)
        /\ uploads = <<>>
        /\ nextUid = MaxStored + 1
        /\ removed = {}
        /\ last = Mounted(store)
        /\ failing = rejected
        /\ localStorage = MountStore(store, library, state, failing)
        /\ MountAudio(library, state, TRUE)
        /\ CalendarIdle
        /\ ShimIdle
        /\ NotesIdle

\* the store starts or stops rejecting the writes of some key (quota reached
\* or freed, storage disabled or enabled); the component is not told
StorageChange(rejected) ==
    /\ rejected # failing
    /\ failing' = rejected
    /\ UNCHANGED <<playerVars, last, localStorage, view, current, selected,
                   audioVars, shimVars, notesVars>>

NextPersist ==
    \/ Handlers
    \/ \E rejected \in SUBSET PlayerKeys : StorageChange(rejected)

SpecPersist == InitPersist /\ [][NextPersist]_vars

-----------------------------------------------------------------------------
(* A session of the player under a host whose autoplay policy changes.     *)

\* the host starts or stops rejecting audio.play() (autoplay policy, user
\* activation, output device); the component is not told
HostPolicy(rejected) ==
    /\ rejected # blocking
    /\ blocking' = rejected
    /\ request' = "none"
    /\ UNCHANGED <<playerVars, last, localStorage, failing, audio, view, current, selected,
                   shimVars, notesVars>>

InitAudio ==
    /\ library = <<>>
    /\ state = DefaultState
    /\ uploads = <<>>
    /\ nextUid = 1
    /\ removed = {}
    /\ last = NoHistory
    /\ failing = PlayerKeys
    /\ localStorage = MountStore(<<>>, library, state, failing)
    /\ \E rejected \in BOOLEAN : MountAudio(library, state, rejected)
    /\ CalendarIdle
    /\ ShimIdle
    /\ NotesIdle

NextAudio ==
    \/ Next
    \/ \E rejected \in BOOLEAN : HostPolicy(rejected)

SpecAudio == InitAudio /\ [][NextAudio]_vars

-----------------------------------------------------------------------------
(* The dev shim: parseArgs and main.  A string is the sequence of its      *)
(* characters.                                                             *)

\* undefined, where a string may stand; no string of characters equals it
Undefined == <<"undefined">>

DefaultPort == <<"3", "0", "0", "0">>
DefaultHost == <<"0", ".", "0", ".", "0", ".", "0">>

ArgSeparator == <<"-", "-">>
ArgPort == <<"-", "-", "p", "o", "r", "t">>
ArgHost == <<"-", "-", "h", "o", "s", "t">>

\* the arguments a command line is made of: --, --port, --host, --port=80,
\* --host=h, --port=8=0, -v, 80, h
ArgTokens ==
    {ArgSeparator, ArgPort, ArgHost,
     ArgPort \o <<"=", "8", "0">>, ArgHost \o <<"=", "h">>, ArgPort \o <<"=", "8", "=", "0">>,
     <<"-", "v">>, <<"8", "0">>, <<"h">>}

\* the command lines given to the shim
ArgLists == UNION {[1..n -> ArgTokens] : n \in 0..MaxArgs}

\* the environments the shim is started in: each of the three variables unset
\* or set, PORT also set to the empty string
Envs ==
    {p @@ h @@ r : p \in {<<>>, "PORT" :> <<>>, "PORT" :> <<"9", "0">>},
                   h \in {<<>>, "HOST" :> <<"x">>},
                   r \in {<<>>, "REACT_APP_PORT" :> <<"7", "0">>}}

Platforms == {"win32", "linux"}

\* child exit codes; NoCode is the null of a child ended by a signal
NoCode == -1
ExitCodes == {NoCode, 0, 1}

\* str.startsWith(prefix)
StartsWith(str, prefix) ==
    /\ Len(str) >= Len(prefix)
    /\ SubSeq(str, 1, Len(prefix)) = prefix

\* the position of the first '=' of str, 0 if there is none
FirstEq(str) ==
    IF \E k \in 1..Len(str) : str[k] = "="
    THEN CHOOSE k \in 1..Len(str) : str[k] = "=" /\ \A j \in 1..(k - 1) : str[j] # "="
    ELSE 0

\* str.split('=')[1]: what stands between the first '=' and the second one, or
\* the end; undefined without a '='
SplitEq1(str) ==
    IF FirstEq(str) = 0 THEN Undefined
    ELSE LET rest == SubSeq(str, FirstEq(str) + 1, Len(str))
         IN  IF FirstEq(rest) = 0 THEN rest ELSE SubSeq(rest, 1, FirstEq(rest) - 1)

\* argv[i], undefined past the end
ArgAt(args, i) == IF i < Len(args) THEN args[i + 1] ELSE Undefined

\* !value, for a string or undefined
Empty(value) == value = Undefined \/ value = <<>>

\* value || default, for a string or undefined
OrValue(value, default) == IF Empty(value) THEN default ELSE value

\* next && !next.startsWith('-')
IsValue(next) == ~Empty(next) /\ ~StartsWith(next, <<"-">>)

\* the while loop of parseArgs from index i on
RECURSIVE ParseFrom(_, _, _)
ParseFrom(args, i, result) ==
    IF i >= Len(args) THEN result
    ELSE LET arg == ArgAt(args, i)
             next == ArgAt(args, i + 1)
         IN  IF arg = ArgSeparator
             THEN [result EXCEPT !.passthrough = @ \o SubSeq(args, i + 1, Len(args))]
             ELSE IF arg = ArgPort /\ IsValue(next)
             THEN ParseFrom(args, i + 2, [result EXCEPT !.port = next])
             ELSE IF StartsWith(arg, ArgPort \o <<"=">>)
             THEN ParseFrom(args, i + 1, [result EXCEPT !.port = SplitEq1(arg)])
             ELSE IF arg = ArgHost /\ IsValue(next)
             THEN ParseFrom(args, i + 2, [result EXCEPT !.host = next])
             ELSE IF StartsWith(arg, ArgHost \o <<"=">>)
             THEN ParseFrom(args, i + 1, [result EXCEPT !.host = SplitEq1(arg)])
             ELSE ParseFrom(args, i + 1, [result EXCEPT !.passthrough = Append(@, arg)])

\* parseArgs(argv)
ParseArgs(args) ==
    ParseFrom(args, 0, [port |-> Undefined, host |-> Undefined, passthrough |-> <<>>])

\* e with e[name] = value
SetEnv(e, name, value) ==
    [n \in DOMAIN e \cup {name} |-> IF n = name THEN value ELSE e[n]]

\* !env[name]
Unset(e, name) == name \notin DOMAIN e \/ e[name] = <<>>

\* the environment main builds for the child
ChildEnv(e, parsed) ==
    LET withPort == IF Unset(e, "PORT")
                    THEN SetEnv(e, "PORT", OrValue(parsed.port, DefaultPort))
                    ELSE e
    IN  IF Unset(withPort, "HOST")
        THEN SetEnv(withPort, "HOST", OrValue(parsed.host, DefaultHost))
        ELSE withPort

\* main on the given platform, up to spawn
Main(platform) ==
    /\ ~child.spawned
    /\ LET parsed == ParseArgs(argv)
       IN  child' = [spawned |-> TRUE,
                     cmd |-> IF platform = "win32" THEN "npx.cmd" ELSE "npx",
                     args |-> <<<<"r", "e", "a", "c", "t", "-", "s", "c", "r", "i", "p", "t", "s">>,
                                <<"s", "t", "a", "r", "t">>>> \o parsed.passthrough,
                     env |-> ChildEnv(env, parsed),
                     exited |-> FALSE,
                     exitCode |-> 0]
    /\ last' = Ran("main")
    /\ UNCHANGED <<argv, env, playerVars, audioVars, localStorage, failing,
                   view, current, selected, notesVars>>

\* child.on('exit', (code) => process.exit(code ?? 0))
ChildExit(code) ==
    /\ child.spawned
    /\ ~child.exited
    /\ child' = [child EXCEPT !.exited = TRUE,
                              !.exitCode = IF code = NoCode THEN 0 ELSE code]
    /\ last' = Ran("exit")
    /\ UNCHANGED <<argv, env, playerVars, audioVars, localStorage, failing,
                   view, current, selected, notesVars>>

InitShim ==
    /\ argv \in ArgLists
    /\ env \in Envs
    /\ child = NoChild
    /\ last = NoHistory
    /\ localStorage = <<>>
    /\ failing = {}
    /\ PlayerIdle
    /\ CalendarIdle
    /\ NotesIdle

NextShim ==
    \/ \E platform \in Platforms : Main(platform)
    \/ \E code \in ExitCodes : ChildExit(code)

SpecShim == InitShim /\ [][NextShim]_vars

-----------------------------------------------------------------------------
(* The notes of App.  A note is {id, title, content, createdAt,            *)
(* updatedAt}, with the times in minutes.  Ids are the strings produced by *)
(* uuid(), drawn from a counter as those of uid() are.  The search field is *)
(* left empty, so that every note is listed and can be selected.           *)

KEY_NOTES == "notes-demo"

\* Date.now() during the session, which is shorter than a minute; the notes
\* of a former session are older
Now == 100

\* what is typed into the title field and the content field of the modal
DraftTitles == {<<" ">>, <<" ", "T">>}
DraftContents == {<<>>}

\* str.trim(), for strings whose only whitespace is the space
RECURSIVE TrimStart(_), TrimEnd(_)
TrimStart(str) == IF str # <<>> /\ Head(str) = " " THEN TrimStart(Tail(str)) ELSE str

TrimEnd(str) ==
    IF str # <<>> /\ str[Len(str)] = " " THEN TrimEnd(SubSeq(str, 1, Len(str) - 1)) ELSE str

Trim(str) == TrimEnd(TrimStart(str))

\* JSON.stringify of a note
StringifyNote(n) ==
    <<Tok("{"), Key("id"), Tok(":"), StringifyId(n.id), Tok(","),
      Key("title"), Tok(":"), Str(n.title), Tok(","),
      Key("content"), Tok(":"), Str(n.content), Tok(","),
      Key("createdAt"), Tok(":"), Num(n.createdAt), Tok(","),
      Key("updatedAt"), Tok(":"), Num(n.updatedAt), Tok("}")>>

\* JSON.stringify(notes)
StringifyNotes(list) == StringifyArray([k \in 1..Len(list) |-> StringifyNote(list[k])])

\* the initialiser of notes: `raw ? JSON.parse(raw) : []` inside try { } catch
LoadNotes(store) ==
    IF Missing(store, KEY_NOTES) \/ store[KEY_NOTES] = <<>> THEN <<>>
    ELSE LET v == JSONParse(store[KEY_NOTES])
         IN  IF v.ok THEN v.val ELSE <<>>

\* the persist effect of notes
SaveNotes(store, list, rejected) == SetItem(store, KEY_NOTES, StringifyNotes(list), rejected)

\* the two notes of the seed effect, 'Welcome to Notes' and 'Monochrome Theme',
\* with the ids uuid() returns from id on
Seed(id) ==
    <<[id |-> id, title |-> <<"W">>, content |-> <<"s">>,
       createdAt |-> Now - 60, updatedAt |-> Now - 30],
      [id |-> id + 1, title |-> <<"M">>, content |-> <<"s">>,
       createdAt |-> Now - 20, updatedAt |-> Now - 10]>>

\* notes.find((n) => n.id === activeId) finds a note
HasActiveNote(list, active) == \E k \in 1..Len(list) : list[k].id = active

\* activeNote, when the find succeeds
ActiveNote(list, active) ==
    list[CHOOSE k \in 1..Len(list) :
             /\ list[k].id = active
             /\ \A j \in 1..(k - 1) : list[j].id # active]

\* setNotes((prev) => [newNote, ...prev])
CreateNotes(prev, newNote) == <<newNote>> \o prev

\* every note rewritten from the draft (mutant)
EditNotes_AllNotes(prev, id, d) ==
    [k \in 1..Len(prev) |->
        [prev[k] EXCEPT !.title = Trim(d.title), !.content = Trim(d.content),
                        !.updatedAt = Now]]

\* setNotes updater of saveDraft in edit mode
EditNotes(prev, id, d) ==
    [k \in 1..Len(prev) |->
        IF prev[k].id = id
        THEN [prev[k] EXCEPT !.title = Trim(d.title), !.content = Trim(d.content),
                             !.updatedAt = Now]
        ELSE prev[k]]

\* setNotes((prev) => prev.filter((n) => n.id !== id))
DeleteNotes(prev, id) == SelectSeq(prev, LAMBDA n : n.id # id)

\* the deleted note stays the active one (mutant)
DeleteActiveId_Keep(active, id) == active

\* if (activeId === id) setActiveId(null)
DeleteActiveId(active, id) == IF active = id THEN NULL ELSE active

\* history record of a handler that asked window.confirm
Answered(op, confirmed) == [op |-> op, confirmed |-> confirmed]

\* what follows a handler of App: the persist effect of notes, run when
\* setNotes was called (ranNotes), and nothing of the other components
CommitNotes(ranNotes) ==
    /\ localStorage' = IF ranNotes THEN SaveNotes(localStorage, notes', failing)
                       ELSE localStorage
    /\ UNCHANGED <<failing, playerVars, audioVars, view, current, selected, shimVars>>

\* openCreateModal
OpenCreateModal ==
    /\ draft' = EmptyDraft
    /\ modalMode' = "create"
    /\ isModalOpen' = TRUE
    /\ last' = Ran("openCreate")
    /\ UNCHANGED <<notes, activeId, nextUuid>>
    /\ CommitNotes(FALSE)

\* openEditModal(activeNote), from the button shown with the active note
OpenEditModal ==
    /\ HasActiveNote(notes, activeId)
    /\ LET note == ActiveNote(notes, activeId)
       IN  /\ draft' = [title |-> note.title, content |-> note.content]
           /\ activeId' = note.id
    /\ modalMode' = "edit"
    /\ isModalOpen' = TRUE
    /\ last' = Ran("openEdit")
    /\ UNCHANGED <<notes, nextUuid>>
    /\ CommitNotes(FALSE)

\* closeModal, from the buttons of the modal
CloseModal ==
    /\ isModalOpen
    /\ isModalOpen' = FALSE
    /\ draft' = EmptyDraft
    /\ last' = Ran("close")
    /\ UNCHANGED <<notes, activeId, modalMode, nextUuid>>
    /\ CommitNotes(FALSE)

\* onChange of the title field
ChangeTitle(text) ==
    /\ isModalOpen
    /\ draft' = [draft EXCEPT !.title = text]
    /\ last' = Ran("title")
    /\ UNCHANGED <<notes, activeId, isModalOpen, modalMode, nextUuid>>
    /\ CommitNotes(FALSE)

\* onChange of the content field
ChangeContent(text) ==
    /\ isModalOpen
    /\ draft' = [draft EXCEPT !.content = text]
    /\ last' = Ran("content")
    /\ UNCHANGED <<notes, activeId, isModalOpen, modalMode, nextUuid>>
    /\ CommitNotes(FALSE)

\* saveDraft: the alert and nothing else without a title; a new note, or the
\* active note rewritten, and closeModal
SaveDraft ==
    /\ isModalOpen
    /\ modalMode = "create" => nextUuid <= MaxUuid
    /\ last' = Ran("save")
    /\ IF Trim(draft.title) = <<>>
       THEN /\ UNCHANGED notesVars
            /\ CommitNotes(FALSE)
       ELSE /\ IF modalMode = "create"
               THEN LET newNote == [id |-> nextUuid, title |-> Trim(draft.title),
                                    content |-> Trim(draft.content),
                                    createdAt |-> Now, updatedAt |-> Now]
                    IN  /\ notes' = CreateNotes(notes, newNote)
                        /\ activeId' = newNote.id
                        /\ nextUuid' = nextUuid + 1
               ELSE IF modalMode = "edit" /\ HasActiveNote(notes, activeId)
               THEN /\ notes' = EditNotes(notes, ActiveNote(notes, activeId).id, draft)
                    /\ UNCHANGED <<activeId, nextUuid>>
               ELSE UNCHANGED <<notes, activeId, nextUuid>>
            /\ isModalOpen' = FALSE
            /\ draft' = EmptyDraft
            /\ UNCHANGED modalMode
            /\ CommitNotes(modalMode = "create" \/ HasActiveNote(notes, activeId))

\* deleteNote(activeNote.id), from the button shown with the active note, with
\* the answer given to window.confirm
DeleteNote(confirmed) ==
    /\ HasActiveNote(notes, activeId)
    /\ LET id == ActiveNote(notes, activeId).id
       IN  IF ~confirmed
           THEN UNCHANGED <<notes, activeId>>
           ELSE /\ notes' = DeleteNotes(notes, id)
                /\ activeId' = DeleteActiveId(activeId, id)
    /\ last' = Answered("delete", confirmed)
    /\ UNCHANGED <<isModalOpen, draft, modalMode, nextUuid>>
    /\ CommitNotes(confirmed)

\* selectNote(n.id), from the list item of a note
SelectNote(id) ==
    /\ \E k \in 1..Len(notes) : notes[k].id = id
    /\ activeId' = id
    /\ last' = Ran("select")
    /\ UNCHANGED <<notes, isModalOpen, draft, modalMode, nextUuid>>
    /\ CommitNotes(FALSE)

StoredNote(id) ==
    [id |-> id, title |-> <<"S">>, content |-> <<>>, createdAt |-> id, updatedAt |-> id + 1]

\* the lists of notes a former session has saved: distinct ids, newest first
StoredNotes ==
    {list \in UNION {[1..n -> {StoredNote(id) : id \in 1..MaxStoredNotes}] :
                         n \in 0..MaxStoredNotes} :
        \A j, k \in 1..Len(list) : j < k => list[j].id > list[k].id}

\* the stores App is mounted on: no item, a text that is not JSON, or a saved list
NotesStores ==
    {<<>>, KEY_NOTES :> <<Tok("[")>>} \cup {KEY_NOTES :> StringifyNotes(list) : list \in StoredNotes}

\* the initialisers, then the effects of the first commit: the persist effect
\* of notes, the seed effect when no note was loaded, and the persist effect
\* after it
InitNotes ==
    \E store \in NotesStores :
        LET loaded == LoadNotes(store)
            rejected == {}          \* the store accepts every write
            seeded == Len(loaded) = 0
        IN  /\ notes = IF seeded THEN Seed(MaxStoredNotes + 1) ELSE loaded
            /\ activeId = IF seeded THEN Seed(MaxStoredNotes + 1)[1].id ELSE NULL
            /\ nextUuid = IF seeded THEN MaxStoredNotes + 3 ELSE MaxStoredNotes + 1
            /\ isModalOpen = FALSE
            /\ draft = EmptyDraft
            /\ modalMode = "create"
            /\ failing = rejected
            /\ localStorage =
                   LET first == SaveNotes(store, loaded, rejected)
                   IN  IF seeded THEN SaveNotes(first, notes, rejected) ELSE first
            /\ last = Mounted(store)
            /\ PlayerIdle
            /\ CalendarIdle
            /\ ShimIdle

NextNotes ==
    \/ OpenCreateModal
    \/ OpenEditModal
    \/ CloseModal
    \/ \E text \in DraftTitles : ChangeTitle(text)
    \/ \E text \in DraftContents : ChangeContent(text)
    \/ SaveDraft
    \/ \E confirmed \in BOOLEAN : DeleteNote(confirmed)
    \/ \E id \in 1..MaxUuid : SelectNote(id)

SpecNotes == InitNotes /\ [][NextNotes]_vars

-----------------------------------------------------------------------------
(* Properties *)

\* a is b with some elements left out, the others in their order
RECURSIVE IsSubseq(_, _)
IsSubseq(a, b) ==
    IF a = <<>> THEN TRUE
    ELSE IF b = <<>> THEN FALSE
    ELSE IF Head(a) = Head(b) THEN IsSubseq(Tail(a), Tail(b))
    ELSE IsSubseq(a, Tail(b))

\* number of occurrences of x in arr
Count(arr, x) == Cardinality({k \in 1..Len(arr) : arr[k] = x})

\* the ids of a library, in its order
IdsOf(lib) == [k \in 1..Len(lib) |-> lib[k].id]

\* some upload is suspended on a file read after it has added a track
MidUpload == \E u \in 1..Len(uploads) : uploads[u].status = "reading" /\ uploads[u].i >= 1

\* C1: from the default state, after any sequence of operations (also those
\* handled while an upload is suspended on a read), currentId is null or an
\* id present in queue.
C1_CurrentIdInQueue ==
    state.currentId = NULL \/ \E k \in 1..Len(state.queue) : state.queue[k] = state.currentId

\* The current track was removed while an upload was suspended, and playback
\* moved to another queued track.
C1_Witness ==
    /\ MidUpload
    /\ last.op = "remove"
    /\ state.currentId # NULL
    /\ state.currentId \notin removed
    /\ Len(state.queue) >= 1

\* C2: from the default state, every id in queue is the id of a track
\* currently in library.
C2_QueueSubsetOfLibrary ==
    \A k \in 1..Len(state.queue) : \E j \in 1..Len(library) : library[j].id = state.queue[k]

\* A track was removed and the other tracks are still queued.
C2_Witness ==
    /\ last.op = "remove"
    /\ Len(state.queue) = 2
    /\ Len(library) = 2

\* C3: remove(id) deletes the track from library and id from queue, keeping
\* the order of the remaining entries; if id was current, position becomes 0
\* and currentId the first entry of the new queue, or null when it is empty;
\* otherwise currentId and position are unchanged.
C3_Remove ==
    [][last' = Ran("remove") =>
        \E id \in removed' \ removed :
            /\ id \in LibraryIds(library)
            /\ id \notin LibraryIds(library')
            /\ Len(library') = Len(library) - 1
            /\ IsSubseq(library', library)
            /\ Count(state'.queue, id) = 0
            /\ Len(state'.queue) = Len(state.queue) - Count(state.queue, id)
            /\ IsSubseq(state'.queue, state.queue)
            /\ IF state.currentId = id
               THEN /\ state'.position = 0
                    /\ state'.currentId =
                          IF state'.queue = <<>> THEN NULL ELSE Head(state'.queue)
               ELSE /\ state'.currentId = state.currentId
                    /\ state'.position = state.position]_vars

\* The only track, which was current, has been removed.
C3_Witness ==
    /\ last.op = "remove"
    /\ removed = {1}
    /\ nextUid = 2
    /\ library = <<>>
    /\ state.queue = <<>>
    /\ state.currentId = NULL
    /\ state.position = 0
    /\ state.volume # DefaultVolume

\* C4: with currentId at index i of a non-empty queue, next() moves to
\* index i+1, or to index 0 from the last index; prev() moves to index i-1,
\* or to the last index from index 0.  On an empty queue neither changes
\* anything.  Neither changes queue or library.
C4_NextPrev ==
    [][/\ last'.op \in {"next", "prev"} =>
            /\ state'.queue = state.queue
            /\ library' = library
            /\ state.queue = <<>> => state' = state
       /\ last'.op = "next" =>
            \A i \in 1..Len(state.queue) :
                state.queue[i] = state.currentId =>
                    state'.currentId =
                        state.queue[IF i = Len(state.queue) THEN 1 ELSE i + 1]
       /\ last'.op = "prev" =>
            \A i \in 1..Len(state.queue) :
                state.queue[i] = state.currentId =>
                    state'.currentId =
                        state.queue[IF i = 1 THEN Len(state.queue) ELSE i - 1]]_vars

\* next() was called on the last of three queued tracks and wrapped to the first.
C4_Witness ==
    /\ last.op = "next"
    /\ Len(state.queue) = 3
    /\ last.idx = 2
    /\ state.currentId = state.queue[1]

\* currentId is not an element of the (non-empty) queue
Inconsistent(s) == s.queue # <<>> /\ \A k \in 1..Len(s.queue) : s.queue[k] # s.currentId

\* C5 as stated: when queue is non-empty and currentId is not in it, next()
\* and prev() both set currentId to queue[0].
C5_BothDefaultToHead ==
    [][(last'.op \in {"next", "prev"} /\ Inconsistent(state)) =>
            state'.currentId = state.queue[1]]_vars

\* C5 as amended: when queue is non-empty and currentId is not in it, next()
\* sets currentId to queue[0] and prev() sets it to the last entry of queue;
\* queue is unchanged and the result is an element of queue.
C5_NextHeadPrevLast ==
    [][(last'.op \in {"next", "prev"} /\ Inconsistent(state)) =>
            /\ state'.queue = state.queue
            /\ last'.op = "next" => state'.currentId = state.queue[1]
            /\ last'.op = "prev" => state'.currentId = state.queue[Len(state.queue)]]_vars

\* prev() found no index for currentId in a queue whose head and last entry
\* differ, and made the last entry current.
C5_Witness ==
    /\ last.op = "prev"
    /\ last.idx = -1
    /\ Len(state.queue) >= 2
    /\ state.queue[1] # state.queue[Len(state.queue)]
    /\ state.currentId = state.queue[Len(state.queue)]

\* C7: play(id) sets currentId to id; an id not yet in queue is appended at
\* the end, a queued id leaves queue as it was; library, position and volume
\* are unchanged.
C7_Play ==
    [][last'.op = "play" =>
        LET id == state'.currentId
        IN  /\ id \in LibraryIds(library)
            /\ state'.queue =
                  IF \E k \in 1..Len(state.queue) : state.queue[k] = id
                  THEN state.queue
                  ELSE state.queue \o <<id>>
            /\ library' = library
            /\ state'.position = state.position
            /\ state'.volume = state.volume]_vars

\* play(id) of a track that was not queued: the queue is one longer than any
\* queue found in storage, the played id at its end.
C7_Witness ==
    /\ last.op = "play"
    /\ Len(state.queue) = MaxStoredQueue + 1
    /\ state.queue[Len(state.queue)] = state.currentId
    /\ Count(state.queue, state.currentId) = 1

\* the upload whose read completed in this step
Reader(u) ==
    /\ u \in 1..Len(uploads)
    /\ uploads[u].status = "reading"
    /\ uploads'[u].made = Append(uploads[u].made, nextUid)

\* C6: upload processes the accepted files in the order given; for each one,
\* if currentId is null at that moment the new id becomes currentId and queue
\* becomes exactly that id, otherwise currentId is unchanged and the id is
\* appended to queue.  Hence A.mp3 then B.mp3 uploaded in one batch with no
\* track selected ends with currentId = id(A) and queue = [id(A), id(B)].
C6_Upload ==
    /\ [][last'.op = "read" =>
            /\ \E u \in 1..Len(uploads) :
                    /\ Reader(u)
                    /\ Head(library').fileName = uploads[u].mp3s[Len(uploads[u].made) + 1]
            /\ Head(library').id = nextUid
            /\ IF state.currentId = NULL
               THEN state'.currentId = nextUid /\ state'.queue = <<nextUid>>
               ELSE state'.currentId = state.currentId
                    /\ state'.queue = state.queue \o <<nextUid>>]_vars
    /\ [](\A u \in 1..Len(uploads) :
            /\ IsSubseq(uploads[u].mp3s, uploads[u].files)
            /\ \A j, k \in 1..Len(uploads[u].made) :
                    j < k => uploads[u].made[j] < uploads[u].made[k])
    /\ []((/\ last.op = "read"
           /\ Len(uploads) = 1
           /\ uploads[1].files = <<NameA, NameB>>
           /\ uploads[1].status = "done"
           /\ removed = {}) =>
            /\ Len(uploads[1].made) = 2
            /\ state.currentId = uploads[1].made[1]
            /\ state.queue = uploads[1].made
            /\ library[2].fileName = NameA
            /\ library[1].fileName = NameB)

\* The batch A.mp3, B.mp3 has just finished as the only upload, nothing removed.
C6_Witness ==
    /\ last.op = "read"
    /\ Len(uploads) = 1
    /\ uploads[1].files = <<NameA, NameB>>
    /\ uploads[1].status = "done"
    /\ removed = {}
    /\ state.currentId = 1
    /\ state.queue = <<1, 2>>

\* the name ends in ".mp3", whatever the case of its letters
EndsInMp3(name) ==
    LET n == Len(name)
    IN  /\ n >= 4
        /\ name[n - 3] = "."
        /\ name[n - 2] \in {"m", "M"}
        /\ name[n - 1] \in {"p", "P"}
        /\ name[n] = "3"

\* tracks created by the uploads so far
Made(ups) ==
    LET RECURSIVE Sum(_)
        Sum(k) == IF k = 0 THEN 0 ELSE Len(ups[k].made) + Sum(k - 1)
    IN  Sum(Len(ups))

\* C8: upload accepts exactly the files whose name ends in ".mp3" compared
\* case-insensitively; one track with duration 0 is created per accepted
\* file (a finished upload has made as many tracks as it accepted files);
\* a rejected file adds no track, no queue entry and does not change
\* currentId.
C8_AcceptMp3Only ==
    /\ [](/\ \A u \in 1..Len(uploads) :
                /\ uploads[u].mp3s = SelectSeq(uploads[u].files, EndsInMp3)
                /\ Len(uploads[u].made) <= Len(uploads[u].mp3s)
                /\ uploads[u].status = "done" => Len(uploads[u].made) = Len(uploads[u].mp3s)
          /\ nextUid - 1 = Made(uploads)
          /\ LibraryIds(library) \subseteq 1..(nextUid - 1)
          /\ \A k \in 1..Len(library) : EndsInMp3(library[k].fileName))
    /\ [][/\ last'.op = "read" =>
                /\ Len(library') = Len(library) + 1
                /\ Head(library').duration = 0
                /\ Tail(library') = library
          /\ last'.op = "upload" => (library' = library /\ state' = state)]_vars

\* The batch Song.MP3, Song.wav has finished: one track, for Song.MP3.
C8_Witness ==
    /\ last.op = "read"
    /\ \E u \in 1..Len(uploads) :
            /\ uploads[u].files = <<NameSongUpper, NameSongWav>>
            /\ uploads[u].status = "done"
            /\ uploads[u].made = <<nextUid - 1>>
    /\ library[1].fileName = NameSongUpper
    /\ library[1].duration = 0
    /\ Len(library) = 1

\* C9: library is ordered newest first (ids are handed out in creation
\* order): each upload puts the new track at the front, and remove and
\* metadata-loaded keep the relative order of the remaining tracks.
C9_NewestFirst ==
    /\ [](\A j, k \in 1..Len(library) : j < k => library[j].id > library[k].id)
    /\ [][/\ last'.op = "read" =>
                (Head(library').id = nextUid /\ Tail(library') = library)
          /\ last'.op = "remove" => IsSubseq(IdsOf(library'), IdsOf(library))
          /\ last'.op = "metadata" => IdsOf(library') = IdsOf(library)]_vars

\* The middle one of three tracks was removed: the newest is still first.
C9_Witness ==
    /\ last.op = "remove"
    /\ IdsOf(library) = <<3, 1>>
    /\ removed = {2}

\* C10: after overlapping uploads have finished, with play, remove, next and
\* prev handled in between, every accepted file of the batches that was not
\* removed has exactly one track in library and its id exactly once in queue,
\* and no two files share a track.
C10_NoneLostOrDuplicated ==
    (\A u \in 1..Len(uploads) : uploads[u].status = "done") =>
        /\ \A u \in 1..Len(uploads) :
              /\ Len(uploads[u].made) = Len(uploads[u].mp3s)
              /\ \A k \in 1..Len(uploads[u].made) :
                    LET id == uploads[u].made[k]
                    IN  id \notin removed =>
                            /\ Count(IdsOf(library), id) = 1
                            /\ Count(state.queue, id) = 1
                            /\ \E j \in 1..Len(library) :
                                  /\ library[j].id = id
                                  /\ library[j].fileName = uploads[u].mp3s[k]
        /\ \A u, v \in 1..Len(uploads) :
              \A j \in 1..Len(uploads[u].made), k \in 1..Len(uploads[v].made) :
                  uploads[u].made[j] = uploads[v].made[k] => (u = v /\ j = k)

\* Two uploads overlapped (the second added its track between the two of the
\* first), a track was removed and another selected meanwhile, and both
\* uploads have finished.
C10_Witness ==
    /\ Len(uploads) = 2
    /\ uploads[1].status = "done"
    /\ uploads[2].status = "done"
    /\ uploads[1].made = <<1, 3>>
    /\ uploads[2].made = <<2>>
    /\ removed = {1}
    /\ state.queue = <<2, 3>>
    /\ state.currentId = 3

(* ---- CalendarView ---- *)

\* the 1st of the month of a date, at midnight
FirstOfMonth(d) == MakeDate(GetFullYear(d), GetMonth(d), 1, 0)

\* days[k + 1] is the calendar day after days[k], for every k
Consecutive(days) ==
    \A k \in 1..(Len(days) - 1) :
        /\ days[k].kind = "date" /\ days[k + 1].kind = "date"
        /\ days[k + 1].day = days[k].day + 1
        /\ days[k + 1].hour = days[k].hour

\* s is the Sunday on or before d
SundayOnOrBefore(s, d) == GetDay(s) = 0 /\ s.day <= d.day /\ d.day - s.day < 7

\* C11: the month grid has exactly 42 entries, each entry is the day after the
\* one before it, and the first entry is the Sunday on or before the 1st of
\* the month of current.
C11_MonthGrid ==
    LET days == GetMonthGrid(current)
    IN  /\ Len(days) = 42
        /\ Consecutive(days)
        /\ SundayOnOrBefore(days[1], FirstOfMonth(current))

\* the grid of a month that does not start on a Sunday, shown after goNext
C11_Witness ==
    /\ view = "month"
    /\ last.op = "goNext"
    /\ GetDay(FirstOfMonth(current)) = 4
    /\ GetMonthGrid(current)[1].day = FirstOfMonth(current).day - 4

\* C12: every day of the month of current is a cell of the month grid, for
\* months of 28, 29, 30 and 31 days and every weekday of the 1st.
C12_MonthCovered ==
    LET days == GetMonthGrid(current)
        y == GetFullYear(current)
        m == GetMonth(current)
    IN  \A d \in 1..DaysInMonth(y, m) :
            \E k \in 1..Len(days) : days[k] = MakeDate(y, m, d, 0)

\* a month whose last day lies in the sixth row of the grid
C12_Witness ==
    LET days == GetMonthGrid(current)
        y == GetFullYear(current)
        m == GetMonth(current)
    IN  /\ view = "month"
        /\ \E k \in 36..42 : days[k] = MakeDate(y, m, DaysInMonth(y, m), 0)

\* C13: the week grid has exactly 7 consecutive days, the first is the Sunday
\* on or before current, and current is one of them.
C13_WeekGrid ==
    LET days == WeekDays(current)
    IN  /\ Len(days) = 7
        /\ Consecutive(days)
        /\ SundayOnOrBefore(days[1], current)
        /\ \E k \in 1..Len(days) : days[k] = current

\* the week of a Sunday, reached by goPrev in week view
C13_Witness ==
    /\ view = "week"
    /\ last.op = "goPrev"
    /\ GetDay(current) = 0
    /\ WeekDays(current)[1] = current

\* the day of the month of d exists in the month after d's
DayExistsNextMonth(d) ==
    GetDate(d) <= DaysInMonth(GetFullYear(AddMonths(FirstOfMonth(d), 1)),
                              GetMonth(AddMonths(FirstOfMonth(d), 1)))

\* C14: goNext directly followed by goPrev returns current to the anchor it
\* started from: always in week and day view, and in month view whenever the
\* anchor's day of the month exists in the following month.
C14_NextThenPrev ==
    (last.op = "goPrev" /\ "origin" \in DOMAIN last)
        => /\ view \in {"week", "day"} => current = last.origin
           /\ (view = "month" /\ DayExistsNextMonth(last.origin)) => current = last.origin

\* goNext then goPrev in month view across the end of a year, and from the
\* last day of a 30-day month into a 31-day one
C14_Witness ==
    /\ last.op = "goPrev" /\ "origin" \in DOMAIN last
    /\ view = "month"
    /\ GetMonth(last.origin) = 11
    /\ GetDate(last.origin) = 31
    /\ current = last.origin

\* C15: setView changes neither current nor selected; a click on a date d sets
\* selected to d at midnight and changes neither current nor view; goToday,
\* goPrev and goNext change neither selected nor view.
C15_Frames ==
    [][/\ last'.op = "setView" => (current' = current /\ selected' = selected)
       /\ last'.op = "selectDate" =>
              /\ selected' = DateOf(last'.from.day, 0)
              /\ current' = current
              /\ view' = view
       /\ last'.op \in {"goToday", "goPrev", "goNext"} =>
              (selected' = selected /\ view' = view)]_vars

\* a date is selected and the anchor has then been moved to today
C15_Witness ==
    /\ last.op = "goToday"
    /\ selected.kind = "date"
    /\ selected # current
    /\ view = "week"

\* C16: in every state of the calendar, the initial one included whatever
\* text is stored under calendar-view, view is "month", "week" or "day".
C16_ViewIsValid == view \in {"month", "week", "day"}

(* ---- persistence ---- *)

\* the store holds under key a text that parses to value
Holds(store, key, value) ==
    /\ ~Missing(store, key)
    /\ JSONParse(store[key]).ok
    /\ JSONParse(store[key]).val = value

\* C17: for every playback state s (currentId null or an id, queue any
\* sequence of ids, the empty one included), loadPlaybackState after a
\* savePlaybackState(s) whose write succeeds returns a structure equal to s.
C17_RoundTrip == LoadPlaybackState(SavePlaybackState(localStorage, state, {})) = state

\* playTrack has been saved with a current id, a queue of two and a position
C17_Witness ==
    /\ last.op = "play"
    /\ state.currentId # NULL
    /\ Len(state.queue) = 2
    /\ state.position = 7
    /\ localStorage[STORAGE_KEY_STATE] = StringifyState(state)
    /\ LoadPlaybackState(localStorage) = state

\* C18: every persisted read fails soft: with the key missing or holding a
\* text that cannot be parsed, the calendar view is "month" and the calendar
\* selected date is null.
C18_FailSoft ==
    last.op = "mount" =>
        /\ Missing(last.store, KEY_VIEW) => view = "month"
        /\ (Missing(last.store, KEY_SELECTED) \/ ParseDate(last.store[KEY_SELECTED]).kind # "date")
               => selected = NullDate

\* C18, the two loads of MusicPlayer: with the key missing or holding a text
\* that cannot be parsed, the library is empty and the bundle is the default.
C18_PlayerFailSoft ==
    last.op = "mount" =>
        /\ (Missing(last.store, STORAGE_KEY_LIBRARY) \/ ~JSONParse(last.store[STORAGE_KEY_LIBRARY]).ok)
               => library = <<>>
        /\ (Missing(last.store, STORAGE_KEY_STATE) \/ ~JSONParse(last.store[STORAGE_KEY_STATE]).ok)
               => state = DefaultState

\* C19: when a handler changes the library or the bundle and the write of its
\* key is accepted, the store then holds the library, and the bundle as one
\* text, equal to the values in memory.
C19_PersistedAfterChange ==
    [][/\ (library' # library /\ STORAGE_KEY_LIBRARY \notin failing)
              => Holds(localStorage', STORAGE_KEY_LIBRARY, library')
       /\ (state' # state /\ STORAGE_KEY_STATE \notin failing)
              => Holds(localStorage', STORAGE_KEY_STATE, state')]_vars

\* removeTrack changed both over a store that accepts writes, after a time in
\* which the store had been left behind
C19_Witness ==
    /\ last.op = "remove"
    /\ failing = {}
    /\ Len(library) = 1
    /\ state.volume = DefaultVolume
    /\ Holds(localStorage, STORAGE_KEY_LIBRARY, library)
    /\ Holds(localStorage, STORAGE_KEY_STATE, state)

\* the text under key is the same in both stores, or missing in both
SameText(a, b, key) ==
    IF Missing(a, key) THEN Missing(b, key) ELSE ~Missing(b, key) /\ a[key] = b[key]

\* the step of the handler named by last', on the values in memory
InMemoryStep ==
    /\ last'.op = "play" =>
           (library' = library /\ \E id \in Ids : state' = PlayTrackState(state, id))
    /\ last'.op = "remove" =>
           \E id \in Ids : /\ library' = RemoveTrackLibrary(library, id)
                           /\ state' = RemoveTrackState(state, id)
    /\ last'.op \in {"next", "ended"} => (library' = library /\ state' = PlayNextState(state))
    /\ last'.op = "prev" => (library' = library /\ state' = PlayPrevState(state))
    /\ last'.op \in {"timeupdate", "seek"} =>
           (library' = library /\ \E t \in Positions : state' = [state EXCEPT !.position = t])
    /\ last'.op = "volume" =>
           (library' = library /\ \E v \in Volumes : state' = [state EXCEPT !.volume = v])
    /\ last'.op = "metadata" => state' = state

\* C20: a rejected write is swallowed: the text under a rejecting key stays
\* as it was, the handler's step on the values in memory is the one it takes
\* over an accepting store, and the write is not made again before the next
\* mutation: neither when the store accepts writes again nor by a handler
\* that returns early.
C20_FailureSwallowed ==
    [][/\ \A key \in failing : SameText(localStorage, localStorage', key)
       /\ failing' = failing => InMemoryStep
       /\ failing' # failing =>
              (localStorage' = localStorage /\ library' = library /\ state' = state)
       /\ (last'.op \in {"next", "prev", "ended"} /\ Len(state.queue) = 0)
              => localStorage' = localStorage
       /\ (last'.op = "metadata" /\ ~HasCurrentTrack(library, state))
              => localStorage' = localStorage]_vars

\* onVolume ran over a store rejecting the bundle: the volume is set in memory
\* and the store still holds the bundle of before
C20_Witness ==
    /\ last.op = "volume"
    /\ STORAGE_KEY_STATE \in failing
    /\ state.volume = DefaultVolume
    /\ Holds(localStorage, STORAGE_KEY_STATE, [state EXCEPT !.volume = 40])

(* ---- PlaybackQueue, continued ---- *)

\* C21: a track-ended event leaves the state that next() leaves from the same
\* state, whether the queue is empty, holds currentId, or does not hold it.
C21_EndedIsNext ==
    [][last'.op = "ended" => (state' = PlayNextState(state) /\ library' = library)]_vars

\* the track ended on the last entry of a queue of two, and the first is current
C21_Witness ==
    /\ last.op = "ended"
    /\ last.idx = 1
    /\ Len(state.queue) = 2
    /\ state.currentId = state.queue[1]
    /\ state.position = 0

\* the message tells the number n
Tells(message, n) == \E k \in 1..Len(message.numbers) : message.numbers[k] = n

\* C22: a batch with files that lack the .mp3 suffix still has its accepted
\* files added, and the user is told once for the batch how many files were
\* rejected.
C22_ToldHowMany ==
    \A u \in 1..Len(uploads) :
        /\ uploads[u].status = "done" => Len(uploads[u].made) = Len(uploads[u].mp3s)
        /\ uploads[u].nonMp3Count > 0 =>
               /\ Len(uploads[u].alerts) = 1
               /\ Tells(uploads[u].alerts[1], uploads[u].nonMp3Count)

\* the positions of the library whose entry the step has changed
Rewritten == {k \in 1..Len(library) : library'[k] # library[k]}

\* C24: a metadata event writes the duration onto one library entry, the one
\* of the track the audio element has loaded (the current track); the other
\* tracks, the order of the library and the bundle are unchanged, and no
\* other step changes a duration: a track is created with duration 0.
C24_Metadata ==
    [][/\ last'.op = "metadata" =>
              /\ state' = state
              /\ IdsOf(library') = IdsOf(library)
              /\ Cardinality(Rewritten) <= 1
              /\ \A k \in Rewritten :
                     /\ library[k].id = state.currentId
                     /\ library'[k].duration \in Durations
                     /\ library'[k] = [library[k] EXCEPT !.duration = library'[k].duration]
              /\ HasCurrentTrack(library, state) =>
                     CurrentTrack(library', state').duration \in Durations
       /\ last'.op # "metadata" =>
              \A j \in 1..Len(library') :
                  IF library'[j].id \in LibraryIds(library)
                  THEN \E k \in 1..Len(library) : library[k] = library'[j]
                  ELSE library'[j].duration = 0]_vars

\* the duration of the current track is known, that of the other two is not
C24_Witness ==
    /\ last.op = "metadata"
    /\ Len(library) = 3
    /\ HasCurrentTrack(library, state)
    /\ CurrentTrack(library, state).duration = 5
    /\ Cardinality({k \in 1..Len(library) : library[k].duration = 0}) = 2

\* C26: from the default state, currentId is null exactly when queue is
\* empty; hence an upload replaces the queue by the new id only when the
\* queue is empty, and no upload drops an id from the queue.
C26_NullIffEmpty ==
    /\ []((state.currentId = NULL) <=> (state.queue = <<>>))
    /\ [][last'.op = "read" =>
              /\ state'.queue = <<nextUid>> => state.queue = <<>>
              /\ IsSubseq(state.queue, state'.queue)]_vars

\* the current track was removed from a queue of three, and a file read later
C26_Witness ==
    /\ last.op = "read"
    /\ removed # {}
    /\ state.currentId \notin removed
    /\ Len(state.queue) = 2
    /\ state.queue[2] = nextUid - 1

\* C27: from the default state, with a fresh id for every uploaded track,
\* queue never holds the same id twice.
C27_QueueDuplicateFree ==
    \A j, k \in 1..Len(state.queue) : j # k => state.queue[j] # state.queue[k]

\* a track of a queue of three is played again
C27_Witness ==
    /\ last.op = "play"
    /\ Len(state.queue) = 3
    /\ state.currentId = state.queue[1]
    /\ removed = {}

\* next() applied n times
RECURSIVE NextTimes(_, _)
NextTimes(s, n) == IF n = 0 THEN s ELSE PlayNextState(NextTimes(s, n - 1))

DuplicateFree(queue) == \A j, k \in 1..Len(queue) : j # k => queue[j] # queue[k]

\* C28: with currentId in a duplicate-free queue, next() then prev() and
\* prev() then next() return currentId to its value; length(queue) times
\* next() goes through every entry once and ends on the starting one; and
\* every next() and prev() sets position to 0.
C28_NextPrevInverse ==
    (Includes(state.queue, state.currentId) /\ DuplicateFree(state.queue)) =>
        LET n == Len(state.queue)
        IN  /\ PlayPrevState(PlayNextState(state)).currentId = state.currentId
            /\ PlayNextState(PlayPrevState(state)).currentId = state.currentId
            /\ NextTimes(state, n).currentId = state.currentId
            /\ {NextTimes(state, k).currentId : k \in 1..n} = {state.queue[k] : k \in 1..n}
            /\ PlayNextState(state).position = 0
            /\ PlayPrevState(state).position = 0

\* next() has just wrapped around in a queue of three
C28_Witness ==
    /\ last.op = "next"
    /\ last.idx = 2
    /\ Len(state.queue) = 3
    /\ state.currentId = state.queue[1]

\* C29: a failed read ends the upload: the step changes neither library nor
\* bundle, the upload makes no track for the failed file or a later one, the
\* tracks it made before stay unless they are removed, and currentId is still
\* null or in queue, and null exactly when queue is empty.
C29_ReadFailure ==
    /\ [][/\ last'.op = "readfail" =>
                 /\ library' = library
                 /\ state' = state
                 /\ \E u \in 1..Len(uploads) :
                        /\ uploads[u].status = "reading"
                        /\ uploads'[u].status = "failed"
          /\ \A u \in 1..Len(uploads) :
                 uploads[u].status = "failed" => uploads'[u] = uploads[u]]_vars
    /\ [](\A u \in 1..Len(uploads) :
              uploads[u].status = "failed" =>
                  /\ Len(uploads[u].made) = uploads[u].i
                  /\ uploads[u].i < Len(uploads[u].mp3s)
                  /\ \A k \in 1..Len(uploads[u].made) :
                         uploads[u].made[k] \notin removed =>
                             /\ uploads[u].made[k] \in LibraryIds(library)
                             /\ Includes(state.queue, uploads[u].made[k])
                  /\ (state.currentId = NULL \/ Includes(state.queue, state.currentId))
                  /\ ((state.currentId = NULL) <=> (state.queue = <<>>)))

\* the read of B.mp3 failed after A.mp3 was added
C29_Witness ==
    /\ last.op = "readfail"
    /\ \E u \in 1..Len(uploads) :
           /\ uploads[u].status = "failed"
           /\ uploads[u].mp3s = <<NameA, NameB>>
           /\ Len(uploads[u].made) = 1
           /\ uploads[u].made[1] \in LibraryIds(library)
           /\ Includes(state.queue, uploads[u].made[1])

(* ---- Playback requests ---- *)

\* the step is a togglePlayPause whose audio.play() the host rejects
RejectedToggle == last'.op = "toggle" /\ request' = "rejected"

\* the step calls audio.play() again, on the source whose play() was rejected
\* in the step before, with the bundle as it was
Retry ==
    /\ request = "rejected"
    /\ request' # "none"
    /\ audio'.src = audio.src
    /\ state' = state

\* C25: a start request that the host rejects changes neither the library nor
\* the bundle, playback is not requested again unless the user toggles
\* play/pause, and a toggle on the paused element requests it again.
C25_RejectedIsNoOp ==
    [][/\ RejectedToggle => (library' = library /\ state' = state /\ audio'.paused)
       /\ Retry => last'.op = "toggle"
       /\ (last'.op = "toggle" /\ blocking' = blocking /\ HasCurrentTrack(library, state) /\ audio.paused) =>
              request' # "none"]_vars

(* ---- Dev shim ---- *)

\* the values the flag gives on the command line, in either form:
\* "flag value" and "flag=value"
FlagValues(args, flag) ==
    {args[k + 1] : k \in {j \in 1..(Len(args) - 1) : args[j] = flag /\ IsValue(args[j + 1])}}
    \cup {SubSeq(args[k], Len(flag) + 2, Len(args[k])) :
              k \in {j \in 1..Len(args) : StartsWith(args[j], flag \o <<"=">>)}}

\* the child's variable is the value of the flag; without the flag it is the
\* default, unless the shim was started with the variable set
Mapped(args, flag, name, default) ==
    /\ name \in DOMAIN child.env
    /\ IF FlagValues(args, flag) # {}
       THEN child.env[name] \in FlagValues(args, flag)
       ELSE child.env[name] = IF Unset(env, name) THEN default ELSE env[name]

\* C23: the child is started with PORT and HOST set to the values of the
\* --port and --host flags, in either form, or to 3000 and 0.0.0.0 without
\* the flag, and with REACT_APP_PORT as the shim found it.
C23_FlagsMapped ==
    child.spawned =>
        /\ Mapped(argv, ArgPort, "PORT", DefaultPort)
        /\ Mapped(argv, ArgHost, "HOST", DefaultHost)
        /\ ("REACT_APP_PORT" \in DOMAIN child.env) = ("REACT_APP_PORT" \in DOMAIN env)
        /\ "REACT_APP_PORT" \in DOMAIN env =>
               child.env["REACT_APP_PORT"] = env["REACT_APP_PORT"]

(* ---- Notes ---- *)

\* C30: activeId is null or the id of a note of the list, after the seeding
\* and after every create, edit, delete, select and modal operation; a
\* confirmed delete of the active note leaves activeId null and the note out
\* of the list, and a declined one leaves notes and activeId as they were.
C30_ActiveIdInNotes ==
    /\ [](activeId = NULL \/ HasActiveNote(notes, activeId))
    /\ [][last'.op = "delete" =>
              IF last'.confirmed
              THEN /\ activeId' = NULL
                   /\ ~HasActiveNote(notes', activeId)
                   /\ Len(notes') = Len(notes) - 1
              ELSE notes' = notes /\ activeId' = activeId]_vars

\* the active one of several notes has just been deleted
C30_Witness ==
    /\ last = Answered("delete", TRUE)
    /\ activeId = NULL
    /\ Len(notes) >= 2
    /\ nextUuid = MaxStoredNotes + 4

\* C31: saveDraft with a title that is empty or only whitespace leaves notes,
\* activeId and the draft as they were and the modal open; in edit mode it
\* changes nothing but title, content and updatedAt of the active note; in
\* create mode it puts one new note at the front of the list and makes it the
\* active one.
C31_SaveDraft ==
    [][last'.op = "save" =>
          IF Trim(draft.title) = <<>>
          THEN /\ notes' = notes
               /\ activeId' = activeId
               /\ draft' = draft
               /\ isModalOpen'
          ELSE IF modalMode = "edit"
          THEN /\ activeId' = activeId
               /\ Len(notes') = Len(notes)
               /\ \A k \in 1..Len(notes) :
                      IF notes[k].id = activeId
                      THEN notes'[k] = [notes[k] EXCEPT !.title = notes'[k].title,
                                                        !.content = notes'[k].content,
                                                        !.updatedAt = notes'[k].updatedAt]
                      ELSE notes'[k] = notes[k]
          ELSE /\ Len(notes') = Len(notes) + 1
               /\ Tail(notes') = notes
               /\ ~HasActiveNote(notes, notes'[1].id)
               /\ activeId' = notes'[1].id]_vars

\* the first note of the seed has been edited: a new title and a new
\* updatedAt, with the createdAt and the place it had, and the other note is
\* as the seed made it
C31_Witness ==
    /\ last.op = "save"
    /\ Len(notes) = 2
    /\ notes[1].title = <<"T">>
    /\ notes[1].createdAt = Now - 60
    /\ notes[1].updatedAt = Now
    /\ notes[2] = Seed(notes[1].id)[2]
    /\ activeId = notes[1].id

(* ---- Seek, volume and time updates ---- *)

\* C32: seek and a time update change nothing but position, setVolume changes
\* nothing but volume, none of them changes the library, and seek stores the
\* number read from the control as it is, also when it is beyond the duration
\* of the current track.
C32_SeekVolumeFrame ==
    [][/\ last'.op = "seek" =>
              /\ library' = library
              /\ state' = [state EXCEPT !.position = state'.position]
              /\ last'.text = <<"7">> => state'.position = 7
              /\ last'.text = <<>> => state'.position = 0
       /\ last'.op = "timeupdate" =>
              /\ library' = library
              /\ state' = [state EXCEPT !.position = state'.position]
       /\ last'.op = "volume" =>
              /\ library' = library
              /\ state' = [state EXCEPT !.volume = state'.volume]]_vars

\* a seek to 7 seconds in a track of 5 seconds, with three tracks queued
C32_Witness ==
    /\ last = RanWith("seek", <<"7">>)
    /\ HasCurrentTrack(library, state)
    /\ CurrentTrack(library, state).duration = 5
    /\ state.position = 7
    /\ Len(state.queue) = 3

=============================================================================
